---- MODULE Spec2Model ----
(***************************************************************************)
(* A model of the SPIR-V backend writer of naga (src/back/spv/writer.rs). *)
(*                                                                         *)
(* The Writer is one record (variable writer); every method of Writer is   *)
(* an operator from a Writer (and its arguments) to a result record        *)
(*     [st |-> "ok" | "err" | "panic", w |-> the Writer afterwards, ...]   *)
(* where "err" is a returned Err(..) and "panic" is an abort               *)
(* (unreachable!, unimplemented!, a failed unwrap or map index).           *)
(* Instructions are records [op, result, type, ids, lits, syms]: ids are  *)
(* the <id> operands, the rest literals.  The word encoding of an          *)
(* instruction is not modelled: a section is a sequence of instructions.   *)
(***************************************************************************)
EXTENDS Integers, Sequences, FiniteSets, TLC

VARIABLES writer,   \* the Writer
          pc,       \* position of the driver of the current specification
          ir,       \* the input under translation (module, function, options)
          cursor,   \* index of the next arena element the driver handles
          result,   \* outcome of the last operation
          words,    \* the caller's output vector
          func,     \* the spv Function under construction / last built
          trace     \* history of observations the properties read

vars == <<writer, pc, ir, cursor, result, words, func, trace>>

(***************************************************************************)
(* Bounds of the model.                                                    *)
(***************************************************************************)
MaxCalls == 3

(***************************************************************************)
(* Small helpers.                                                          *)
(***************************************************************************)
Put(f, k, v) == [x \in (DOMAIN f) \cup {k} |-> IF x = k THEN v ELSE f[x]]

EmptyMap == [x \in {} |-> 0]

RECURSIVE Reverse(_)
Reverse(s) == IF s = <<>> THEN <<>> ELSE Append(Reverse(Tail(s)), Head(s))

Range(s) == {s[i] : i \in DOMAIN s}

(***************************************************************************)
(* The IR type arena.  Handles are the indices 1..Len(Types).              *)
(***************************************************************************)
TScalar(kind, width) == [tag |-> "Scalar", kind |-> kind, width |-> width]
TVector(size, kind, width) ==
    [tag |-> "Vector", size |-> size, kind |-> kind, width |-> width]
TMatrix(columns, rows, width) ==
    [tag |-> "Matrix", columns |-> columns, rows |-> rows, width |-> width]
TPointer(base, class) == [tag |-> "Pointer", base |-> base, class |-> class]
TValuePointer(size, kind, width, class) ==
    [tag |-> "ValuePointer", size |-> size, kind |-> kind, width |-> width,
     class |-> class]
TArray(base, size, stride) ==
    [tag |-> "Array", base |-> base, size |-> size, stride |-> stride]
TStruct(block, members) ==
    [tag |-> "Struct", block |-> block, members |-> members]
\* class is "Sampled", "Depth" or "Storage"; kind is the scalar kind of a
\* Sampled class or of a Storage class's format
TImage(dim, arrayed, class, kind) ==
    [tag |-> "Image", dim |-> dim, arrayed |-> arrayed, class |-> class,
     kind |-> kind]
TSampler == [tag |-> "Sampler"]

\* array sizes: 0 is ArraySize::Dynamic, c > 0 is ArraySize::Constant(c)
Types ==
    << TScalar("Float", 4),                        \* 1
       TScalar("Float", 4),                        \* 2  same inner as 1
       TVector(2, "Float", 4),                     \* 3
       TScalar("Sint", 4),                         \* 4
       TPointer(1, "Function"),                    \* 5
       TValuePointer(0, "Float", 4, "Function"),   \* 6
       TStruct(FALSE, <<1, 4>>),                   \* 7
       TStruct(FALSE, <<1, 4>>),                   \* 8  same members as 7
       TStruct(TRUE, <<3>>),                       \* 9
       TArray(1, 0, 0),                            \* 10 runtime array
       TMatrix(2, 3, 4),                           \* 11
       TImage("D2", FALSE, "Sampled", "Float"),    \* 12
       TSampler,                                   \* 13
       TArray(4, 1, 16),                           \* 14 sized by constant 1
       TScalar("Bool", 1),                         \* 15
       TImage("D1", FALSE, "Sampled", "Float")     \* 16
    >>

TypeHandles == DOMAIN Types

StorageClasses ==
    {"Function", "Private", "WorkGroup", "Uniform", "Storage", "Handle",
     "PushConstant", "Input", "Output"}

(***************************************************************************)
(* LookupType: the keys of Writer::lookup_type.  One record shape for all  *)
(* keys; fields a variant does not have are 0 / "None".                    *)
(***************************************************************************)
LookupHandle(h) ==
    [tag |-> "Handle", h |-> h, size |-> 0, rows |-> 0, kind |-> "None",
     width |-> 0, class |-> "None"]
LocalValue(vector_size, kind, width, pointer_class) ==
    [tag |-> "Value", h |-> 0, size |-> vector_size, rows |-> 0,
     kind |-> kind, width |-> width, class |-> pointer_class]
LocalMatrix(columns, rows, width) ==
    [tag |-> "Matrix", h |-> 0, size |-> columns, rows |-> rows,
     kind |-> "None", width |-> width, class |-> "None"]
LocalPointer(base, class) ==
    [tag |-> "Pointer", h |-> base, size |-> 0, rows |-> 0, kind |-> "None",
     width |-> 0, class |-> class]
LocalSampledImage(image_type) ==
    [tag |-> "SampledImage", h |-> image_type, size |-> 0, rows |-> 0,
     kind |-> "None", width |-> 0, class |-> "None"]
NoLocal ==
    [tag |-> "NoLocal", h |-> 0, size |-> 0, rows |-> 0, kind |-> "None",
     width |-> 0, class |-> "None"]

from_inner(inner) ==
    CASE inner.tag = "Scalar" -> LocalValue(0, inner.kind, inner.width, "None")
      [] inner.tag = "Vector" ->
            LocalValue(inner.size, inner.kind, inner.width, "None")
      [] inner.tag = "Matrix" ->
            LocalMatrix(inner.columns, inner.rows, inner.width)
      [] inner.tag = "Pointer" -> LocalPointer(inner.base, inner.class)
      [] inner.tag = "ValuePointer" ->
            LocalValue(inner.size, inner.kind, inner.width, inner.class)
      [] OTHER -> NoLocal

(***************************************************************************)
(* Instructions.                                                           *)
(***************************************************************************)
\* ids: <id> operands; lits: numeric literals; syms: enumerants and names
Ins(op, result_id, type_id, ids, lits, syms) ==
    [op |-> op, result |-> result_id, type |-> type_id, ids |-> ids,
     lits |-> lits, syms |-> syms]

BITS_PER_BYTE == 8

map_dim(dim) ==
    CASE dim = "D1" -> "Dim1D"
      [] dim = "D2" -> "Dim2D"
      [] dim = "D3" -> "Dim2D"
      [] dim = "Cube" -> "DimCube"

\* spirv::Dim::required_capabilities
DimCapabilities(dim) ==
    CASE dim = "Dim1D" -> <<"Sampled1D", "Image1D">>
      [] dim = "Dim2D" -> <<"Shader", "Kernel", "ImageMSArray">>
      [] dim = "DimCube" -> <<"Shader", "ImageCubeArray">>
      [] OTHER -> <<>>

\* spirv::StorageClass::required_capabilities
StorageClassCapabilities(class) ==
    IF class \in {"Uniform", "Output", "Private", "PushConstant",
                  "StorageBuffer"}
    THEN <<"Shader">> ELSE <<>>

(***************************************************************************)
(* Results of the Writer's methods.                                        *)
(***************************************************************************)
NoError == [kind |-> "none", caps |-> <<>>]
Ok(w, id) == [st |-> "ok", w |-> w, id |-> id, err |-> NoError]
Err(w, kind, caps) ==
    [st |-> "err", w |-> w, id |-> 0, err |-> [kind |-> kind, caps |-> caps]]
Panic(w, why) ==
    [st |-> "panic", w |-> w, id |-> 0, err |-> [kind |-> why, caps |-> <<>>]]

(***************************************************************************)
(* Writer::new.  options = [lang_version, capabilities, debug].            *)
(* The field issued is history, not program state: the ids generate_id     *)
(* has returned, in order.                                                 *)
(***************************************************************************)
\* The Writer's hash maps iterate in an order fixed by their BuildHasher;
\* the model knows two hashers, named after the order they give, and keeps
\* the one of the build in the field hasher.
Hashers == {"ascending", "descending"}

BuildHasherDefault == "ascending"

hash_order(hasher, s) == IF hasher = "ascending" THEN s ELSE Reverse(s)

NewWriter(options) ==
    [ version |-> options.lang_version,
      hasher |-> BuildHasherDefault,
      bound |-> 0,
      id_count |-> 2,
      capabilities |-> options.capabilities,
      debugs |-> <<>>,
      annotations |-> <<>>,
      debug |-> options.debug,
      void_type |-> 2,
      lookup_type |-> EmptyMap,
      lookup_function |-> EmptyMap,
      lookup_function_type |-> EmptyMap,
      lookup_function_call |-> EmptyMap,
      lookup_constant |-> EmptyMap,
      global_variables |-> <<>>,
      cached |-> <<>>,
      struct_type_handles |-> EmptyMap,
      gl450_ext_inst_id |-> 1,
      temp_chain |-> <<>>,
      \* LogicalLayout
      capabilities_sec |-> <<>>,
      ext_inst_imports |-> <<>>,
      memory_model |-> <<>>,
      entry_points |-> <<>>,
      execution_modes |-> <<>>,
      debugs_sec |-> <<>>,
      annotations_sec |-> <<>>,
      declarations |-> <<>>,
      function_definitions |-> <<>>,
      issued |-> <<>>,
      cache_log |-> <<>>,
      entered |-> <<>> ]

\* what the caller of a failed Writer::new holds: no Writer
NoWriter == [version |-> <<>>]

\* a Writer::new that also rejects the minor versions it does not know
Writer_new_known_minor(options) ==
    IF options.lang_version[1] # 1 \/ options.lang_version[2] > 5
    THEN [st |-> "err", w |-> NoWriter, id |-> 0,
          err |-> [kind |-> "UnsupportedVersion", caps |-> <<>>],
          version |-> options.lang_version]
    ELSE [st |-> "ok", w |-> NewWriter(options), id |-> 0, err |-> NoError,
          version |-> options.lang_version]

\* the field version of the answer is the pair of Error::UnsupportedVersion
Writer_new(options) ==
    IF options.lang_version[1] # 1
    THEN [st |-> "err", w |-> NoWriter, id |-> 0,
          err |-> [kind |-> "UnsupportedVersion", caps |-> <<>>],
          version |-> options.lang_version]
    ELSE [st |-> "ok", w |-> NewWriter(options), id |-> 0, err |-> NoError,
          version |-> options.lang_version]

DefaultOptions ==
    [lang_version |-> <<1, 0>>, capabilities |-> {"Shader"}, debug |-> FALSE]

\* a generate_id that returns the counter before raising it
generate_id_stale(w) ==
    [w |-> [w EXCEPT !.id_count = @ + 1, !.issued = Append(@, w.id_count)],
     id |-> w.id_count]

\* id_count is a u32; the model never comes near its overflow
generate_id(w) ==
    LET n == w.id_count + 1
    IN  [w |-> [w EXCEPT !.id_count = n, !.issued = Append(@, n)], id |-> n]

\* a check that wants every capability of the list
check_every(w, capabilities) ==
    IF \A i \in DOMAIN capabilities : capabilities[i] \in w.capabilities
    THEN Ok(w, 0)
    ELSE Err(w, "MissingCapabilities", capabilities)

check(w, capabilities) ==
    IF capabilities = <<>>
       \/ \E i \in DOMAIN capabilities : capabilities[i] \in w.capabilities
    THEN Ok(w, 0)
    ELSE Err(w, "MissingCapabilities", capabilities)

\* a Declare that puts the instruction in front of the buffer
Declare_front(w, instruction) ==
    [w EXCEPT !.declarations = <<instruction>> \o @]

Declare(w, instruction) ==
    [w EXCEPT !.declarations = Append(@, instruction)]

write_scalar(id, kind, width) ==
    LET bits == width * BITS_PER_BYTE
    IN  CASE kind = "Sint" -> Ins("OpTypeInt", id, 0, <<>>, <<bits, 1>>, <<>>)
          [] kind = "Uint" -> Ins("OpTypeInt", id, 0, <<>>, <<bits, 0>>, <<>>)
          [] kind = "Float" -> Ins("OpTypeFloat", id, 0, <<>>, <<bits>>, <<>>)
          [] kind = "Bool" -> Ins("OpTypeBool", id, 0, <<>>, <<>>, <<>>)

\* PhysicalLayout::supports_storage_buffers
supports_storage_buffers(w) == w.version[2] >= 3

parse_to_spirv_storage_class(w, class) ==
    CASE class = "Handle" -> "UniformConstant"
      [] class = "Function" -> "Function"
      [] class = "Input" -> "Input"
      [] class = "Output" -> "Output"
      [] class = "Private" -> "Private"
      [] class = "Storage" /\ supports_storage_buffers(w) -> "StorageBuffer"
      [] class = "Storage" /\ ~supports_storage_buffers(w) -> "Uniform"
      [] class = "Uniform" -> "Uniform"
      [] class = "WorkGroup" -> "Workgroup"
      [] class = "PushConstant" -> "PushConstant"

(***************************************************************************)
(* Sequencing.  Then(r, K) is Rust's `let x = r?; K(x)`: an error or an    *)
(* abort of r is the outcome, otherwise K goes on from r.  Fresh(w, K) is  *)
(* `let id = self.generate_id(); K`.                                       *)
(***************************************************************************)
Then(r, K(_)) == IF r.st # "ok" THEN r ELSE K(r)

Fresh(w, K(_, _)) == LET g == generate_id(w) IN K(g.w, g.id)

(***************************************************************************)
(* The type cache: get_type_id, write_type_declaration_local,              *)
(* write_type_declaration_arena, get_pointer_id.                           *)
(***************************************************************************)
RECURSIVE get_type_id(_, _)
RECURSIVE write_type_declaration_local(_, _)
RECURSIVE write_type_declaration_arena(_, _)
RECURSIVE struct_members(_, _, _, _, _)

\* a get_type_id that declares a handle's type without canonicalising it
get_type_id_no_local(w, lookup_ty) ==
    IF lookup_ty \in DOMAIN w.lookup_type
    THEN Ok(w, w.lookup_type[lookup_ty])
    ELSE IF lookup_ty.tag = "Handle"
         THEN write_type_declaration_arena(w, lookup_ty.h)
         ELSE write_type_declaration_local(w, lookup_ty)

get_type_id(w, lookup_ty) ==
    IF lookup_ty \in DOMAIN w.lookup_type
    THEN Ok(w, w.lookup_type[lookup_ty])
    ELSE IF lookup_ty.tag = "Handle"
         THEN IF from_inner(Types[lookup_ty.h]).tag # "NoLocal"
              THEN get_type_id(w, from_inner(Types[lookup_ty.h]))
              ELSE write_type_declaration_arena(w, lookup_ty.h)
         ELSE write_type_declaration_local(w, lookup_ty)

\* the last two statements of write_type_declaration_local
FinishLocal(w, local_ty, id, instruction) ==
    Ok(Declare([w EXCEPT !.lookup_type = Put(@, local_ty, id)], instruction),
       id)

TypePointer(w, id, class, type_id) ==
    Ins("OpTypePointer", id, 0, <<type_id>>, <<>>,
        <<parse_to_spirv_storage_class(w, class)>>)

write_type_declaration_local(w, local_ty) ==
    Fresh(w, LAMBDA w1, id :
      CASE local_ty.tag = "Value" /\ local_ty.size = 0
           /\ local_ty.class = "None" ->
             FinishLocal(w1, local_ty, id,
                         write_scalar(id, local_ty.kind, local_ty.width))
        [] local_ty.tag = "Value" /\ local_ty.size # 0
           /\ local_ty.class = "None" ->
             Then(get_type_id(w1, LocalValue(0, local_ty.kind,
                                             local_ty.width, "None")),
                  LAMBDA r : FinishLocal(r.w, local_ty, id,
                      Ins("OpTypeVector", id, 0, <<r.id>>,
                          <<local_ty.size>>, <<>>)))
        [] local_ty.tag = "Matrix" ->
             Then(get_type_id(w1, LocalValue(local_ty.rows, "Float",
                                             local_ty.width, "None")),
                  LAMBDA r : FinishLocal(r.w, local_ty, id,
                      Ins("OpTypeMatrix", id, 0, <<r.id>>,
                          <<local_ty.size>>, <<>>)))
        [] local_ty.tag = "Pointer" ->
             Then(get_type_id(w1, LookupHandle(local_ty.h)),
                  LAMBDA r : FinishLocal(r.w, local_ty, id,
                      TypePointer(r.w, id, local_ty.class, r.id)))
        [] local_ty.tag = "Value" /\ local_ty.class # "None" ->
             Then(get_type_id(w1, LocalValue(local_ty.size, local_ty.kind,
                                             local_ty.width, "None")),
                  LAMBDA r : FinishLocal(r.w, local_ty, id,
                      TypePointer(r.w, id, local_ty.class, r.id)))
        [] local_ty.tag = "SampledImage" ->
             Then(get_type_id(w1, LookupHandle(local_ty.h)),
                  LAMBDA r : FinishLocal(r.w, local_ty, id,
                      Ins("OpTypeSampledImage", id, 0, <<r.id>>, <<>>,
                          <<>>))))

\* a FinishArena that forgets to record the handle in lookup_type
FinishArena_unrecorded(w, handle, id, instruction) ==
    Ok(Declare(w, instruction), id)

\* the last two statements of write_type_declaration_arena
FinishArena(w, handle, id, instruction) ==
    Ok(Declare([w EXCEPT !.lookup_type = Put(@, LookupHandle(handle), id)],
               instruction),
       id)

Annotate(w, instruction) ==
    [w EXCEPT !.annotations = Append(@, instruction)]

InsertType(w, key, id) == [w EXCEPT !.lookup_type = Put(@, key, id)]

\* the decorations of member index (from 0) of a block struct
MemberDecorations(w, id, index, member) ==
    LET offset == Ins("OpMemberDecorate", 0, 0, <<id>>, <<index>>,
                      <<"Offset">>)
        byte_stride == IF member.tag = "Matrix" /\ member.columns = 2
                       THEN 2 * member.width
                       ELSE IF member.tag = "Matrix" THEN 4 * member.width
                       ELSE 0
    IN  [w EXCEPT !.annotations =
            IF member.tag = "Matrix"
            THEN @ \o << offset,
                         Ins("OpMemberDecorate", 0, 0, <<id>>, <<index>>,
                             <<"ColMajor">>),
                         Ins("OpMemberDecorate", 0, 0, <<id>>,
                             <<index, byte_stride>>, <<"MatrixStride">>) >>
            ELSE Append(@, offset)]

\* the loop over the members of a struct; r.id is unused and r.ids holds
\* the member type ids gathered so far
struct_members(r, id, members, index, block) ==
    IF index > Len(members) THEN r
    ELSE Then(get_type_id(IF block
                          THEN MemberDecorations(r.w, id, index - 1,
                                                 Types[members[index]])
                          ELSE r.w,
                          LookupHandle(members[index])),
              LAMBDA m : struct_members(
                  [st |-> "ok", w |-> m.w, id |-> 0, err |-> NoError,
                   ids |-> Append(r.ids, m.id)],
                  id, members, index + 1, block))

StructStart(w) ==
    [st |-> "ok", w |-> w, id |-> 0, err |-> NoError, ids |-> <<>>]

BlockDecoration(w, handle, id) ==
    IF handle \in DOMAIN w.struct_type_handles
    THEN Annotate(w, Ins("OpDecorate", 0, 0, <<id>>, <<>>,
                         <<IF w.struct_type_handles[handle] = {}
                           THEN "Block" ELSE "BufferBlock">>))
    ELSE w

write_type_declaration_arena(w, handle) ==
    Fresh(w, LAMBDA w1, id :
      LET ty == Types[handle] IN
      CASE ty.tag = "Scalar" ->
             FinishArena(
                InsertType(w1, LocalValue(0, ty.kind, ty.width, "None"), id),
                handle, id, write_scalar(id, ty.kind, ty.width))
        [] ty.tag = "Vector" ->
             Then(get_type_id(w1, LocalValue(0, ty.kind, ty.width, "None")),
                  LAMBDA r : FinishArena(
                      InsertType(r.w, LocalValue(ty.size, ty.kind, ty.width,
                                                 "None"), id),
                      handle, id,
                      Ins("OpTypeVector", id, 0, <<r.id>>, <<ty.size>>,
                          <<>>)))
        [] ty.tag = "Matrix" ->
             Then(get_type_id(w1, LocalValue(ty.columns, "Float", ty.width,
                                             "None")),
                  LAMBDA r : FinishArena(
                      InsertType(r.w, LocalMatrix(ty.columns, ty.rows,
                                                  ty.width), id),
                      handle, id,
                      Ins("OpTypeMatrix", id, 0, <<r.id>>, <<ty.columns>>,
                          <<>>)))
        [] ty.tag = "Image" ->
             Then(get_type_id(w1, LocalValue(0,
                      IF ty.class = "Depth" THEN "Float" ELSE ty.kind,
                      4, "None")),
                  LAMBDA r :
                    Then(check(r.w, DimCapabilities(map_dim(ty.dim))),
                         LAMBDA c : FinishArena(c.w, handle, id,
                             Ins("OpTypeImage", id, 0, <<r.id>>,
                                 <<IF ty.arrayed THEN 1 ELSE 0>>,
                                 <<map_dim(ty.dim), ty.class>>))))
        [] ty.tag = "Sampler" ->
             FinishArena(w1, handle, id,
                         Ins("OpTypeSampler", id, 0, <<>>, <<>>, <<>>))
        [] ty.tag = "Array" ->
             Then(get_type_id(IF ty.stride # 0
                              THEN Annotate(w1, Ins("OpDecorate", 0, 0,
                                       <<id>>, <<ty.stride>>,
                                       <<"ArrayStride">>))
                              ELSE w1,
                              LookupHandle(ty.base)),
                  LAMBDA r :
                    IF ty.size = 0
                    THEN FinishArena(r.w, handle, id,
                           Ins("OpTypeRuntimeArray", id, 0, <<r.id>>, <<>>,
                               <<>>))
                    ELSE IF ty.size \notin DOMAIN r.w.lookup_constant
                    THEN Panic(r.w, "lookup_constant")
                    ELSE FinishArena(r.w, handle, id,
                           Ins("OpTypeArray", id, 0,
                               <<r.id, r.w.lookup_constant[ty.size]>>, <<>>,
                               <<>>)))
        [] ty.tag = "Struct" ->
             Then(struct_members(
                      StructStart(IF ty.block
                                  THEN BlockDecoration(w1, handle, id)
                                  ELSE w1),
                      id, ty.members, 1, ty.block),
                  LAMBDA m : FinishArena(m.w, handle, id,
                      Ins("OpTypeStruct", id, 0, m.ids, <<>>, <<>>)))
        [] ty.tag = "Pointer" ->
             Then(get_type_id(w1, LookupHandle(ty.base)),
                  LAMBDA r : FinishArena(
                      InsertType(r.w, LocalPointer(ty.base, ty.class), id),
                      handle, id, TypePointer(r.w, id, ty.class, r.id)))
        [] ty.tag = "ValuePointer" ->
             Then(get_type_id(w1, LocalValue(ty.size, ty.kind, ty.width,
                                             "None")),
                  LAMBDA r : FinishArena(
                      InsertType(r.w, LocalValue(ty.size, ty.kind, ty.width,
                                                 ty.class), id),
                      handle, id, TypePointer(r.w, id, ty.class, r.id))))

get_pointer_id(w, handle, class) ==
    Then(get_type_id(w, LookupHandle(handle)),
         LAMBDA r :
           IF Types[handle].tag = "Pointer" THEN r
           ELSE IF LocalPointer(handle, class) \in DOMAIN r.w.lookup_type
           THEN Ok(r.w, r.w.lookup_type[LocalPointer(handle, class)])
           ELSE Fresh(r.w, LAMBDA w1, id :
                  Ok(InsertType(Declare(w1, TypePointer(w1, id, class,
                                                        r.id)),
                                LocalPointer(handle, class), id),
                     id)))

create_constant(w, type_id, value) ==
    Fresh(w, LAMBDA w1, id :
        Ok(Declare(w1, Ins("OpConstant", id, type_id, <<>>, value, <<>>)),
           id))

(***************************************************************************)
(* The IR of functions.  Handles are indices from 1; 0 stands for None.    *)
(* An expression carries in ty the LookupType key the typifier resolves    *)
(* for it.                                                                 *)
(***************************************************************************)
Expr(tag, a, b, op, ty) ==
    [tag |-> tag, a |-> a, b |-> b, op |-> op, ty |-> ty]
EAccess(base, index, ty) == Expr("Access", base, index, "None", ty)
EAccessIndex(base, index, ty) == Expr("AccessIndex", base, index, "None", ty)
EGlobalVariable(handle, ty) == Expr("GlobalVariable", handle, 0, "None", ty)
EConstant(handle, ty) == Expr("Constant", handle, 0, "None", ty)
ELocalVariable(variable, ty) == Expr("LocalVariable", variable, 0, "None", ty)
EFunctionArgument(index, ty) == Expr("FunctionArgument", index, 0, "None", ty)
ELoad(pointer, ty) == Expr("Load", pointer, 0, "None", ty)
ECall(function, ty) == Expr("Call", function, 0, "None", ty)
EBinary(op, left, right, ty) == Expr("Binary", left, right, op, ty)
\* a kind the Writer has no lowering for
EOther(ty) == Expr("Other", 0, 0, "None", ty)

\* the resolution of an expression the Typifier cannot type
NoResolution ==
    [tag |-> "Unresolved", h |-> 0, size |-> 0, rows |-> 0, kind |-> "None",
     width |-> 0, class |-> "None"]

\* Expression::needs_pre_emit
needs_pre_emit(expr) ==
    expr.tag \in {"GlobalVariable", "Constant", "FunctionArgument",
                  "LocalVariable"}

\* Typifier::get: the inner type behind a resolution
typifier_get(expr) ==
    CASE expr.ty.tag = "Handle" -> Types[expr.ty.h]
      [] expr.ty.tag = "Value" /\ expr.ty.class # "None" ->
            TValuePointer(expr.ty.size, expr.ty.kind, expr.ty.width,
                          expr.ty.class)
      [] expr.ty.tag = "Value" /\ expr.ty.size = 0 ->
            TScalar(expr.ty.kind, expr.ty.width)
      [] expr.ty.tag = "Value" ->
            TVector(expr.ty.size, expr.ty.kind, expr.ty.width)
      [] expr.ty.tag = "Matrix" ->
            TMatrix(expr.ty.size, expr.ty.rows, expr.ty.width)
      [] OTHER -> TPointer(expr.ty.h, expr.ty.class)

Stmt(tag, e1, e2, args, body, other, cases, fn) ==
    [tag |-> tag, e1 |-> e1, e2 |-> e2, args |-> args, body |-> body,
     other |-> other, cases |-> cases, fn |-> fn]
\* Emit of the expressions first..last
SEmit(first, last) == Stmt("Emit", first, last, <<>>, <<>>, <<>>, <<>>, 0)
SBlock(body) == Stmt("Block", 0, 0, <<>>, body, <<>>, <<>>, 0)
SIf(condition, accept, reject) ==
    Stmt("If", condition, 0, <<>>, accept, reject, <<>>, 0)
SwitchCase(value, body, fall_through) ==
    [value |-> value, body |-> body, fall_through |-> fall_through]
SSwitch(selector, cases, default) ==
    Stmt("Switch", selector, 0, <<>>, <<>>, default, cases, 0)
SLoop(body, continuing) ==
    Stmt("Loop", 0, 0, <<>>, body, continuing, <<>>, 0)
SBreak == Stmt("Break", 0, 0, <<>>, <<>>, <<>>, <<>>, 0)
SContinue == Stmt("Continue", 0, 0, <<>>, <<>>, <<>>, <<>>, 0)
SReturn(value) == Stmt("Return", value, 0, <<>>, <<>>, <<>>, <<>>, 0)
SKill == Stmt("Kill", 0, 0, <<>>, <<>>, <<>>, <<>>, 0)
SStore(pointer, value) ==
    Stmt("Store", pointer, value, <<>>, <<>>, <<>>, <<>>, 0)
SCall(function, arguments, call_result) ==
    Stmt("Call", call_result, 0, arguments, <<>>, <<>>, <<>>, function)

\* crate::Function; return_type 0 is None; info is the set of the globals
\* the analysis reports as used
IrFunction(arguments, return_type, local_variables, expressions, body, info) ==
    [arguments |-> arguments, return_type |-> return_type,
     local_variables |-> local_variables, expressions |-> expressions,
     body |-> body, info |-> info]

(***************************************************************************)
(* Block and Function of the Writer.                                       *)
(***************************************************************************)
NoIns == Ins("None", 0, 0, <<>>, <<>>, <<>>)

Block_new(label_id) ==
    [label_id |-> label_id, body |-> <<>>, termination |-> NoIns]

Function_default ==
    [signature |-> NoIns, parameters |-> <<>>, variables |-> EmptyMap,
     blocks |-> <<>>, hasher |-> BuildHasherDefault]

\* a push that puts the instruction at the head of the body
Push_front(block, instruction) ==
    [block EXCEPT !.body = <<instruction>> \o @]

Push(block, instruction) == [block EXCEPT !.body = Append(@, instruction)]

Terminate(block, termination) == [block EXCEPT !.termination = termination]

\* a consume that loses the block it was given
consume_lost(function, block, termination) == function

consume(function, block, termination) ==
    [function EXCEPT !.blocks = Append(@, Terminate(block, termination))]

\* the local variables in the order of iteration of the map
VariableInstructions(function) ==
    hash_order(function.hasher,
               [v \in 1..Cardinality(DOMAIN function.variables) |->
                   function.variables[v].instruction])

\* a flattening that writes the local variables in the last block
RECURSIVE blocks_to_words_variables_last(_, _, _)
blocks_to_words_variables_last(function, index, sink) ==
    IF index > Len(function.blocks) THEN sink
    ELSE blocks_to_words_variables_last(function, index + 1,
            sink \o <<Ins("OpLabel", function.blocks[index].label_id, 0,
                          <<>>, <<>>, <<>>)>>
                 \o (IF index = Len(function.blocks)
                     THEN VariableInstructions(function) ELSE <<>>)
                 \o function.blocks[index].body
                 \o <<function.blocks[index].termination>>)

RECURSIVE blocks_to_words(_, _, _)
blocks_to_words(function, index, sink) ==
    IF index > Len(function.blocks) THEN sink
    ELSE blocks_to_words(function, index + 1,
            sink \o <<Ins("OpLabel", function.blocks[index].label_id, 0,
                          <<>>, <<>>, <<>>)>>
                 \o (IF index = 1 THEN VariableInstructions(function)
                     ELSE <<>>)
                 \o function.blocks[index].body
                 \o <<function.blocks[index].termination>>)

\* a Function::to_words that writes the parameters after the blocks
to_words_parameters_last(w, function) ==
    IF function.signature = NoIns THEN Panic(w, "unwrap on None")
    ELSE IF \E i \in DOMAIN function.blocks :
               function.blocks[i].termination = NoIns
    THEN Panic(w, "termination is None")
    ELSE Ok([w EXCEPT !.function_definitions =
                 @ \o blocks_to_words(function, 1, <<function.signature>>)
                   \o function.parameters],
            0)

\* Function::to_words; None.unwrap() aborts
to_words(w, function) ==
    IF function.signature = NoIns THEN Panic(w, "unwrap on None")
    ELSE IF \E i \in DOMAIN function.blocks :
               function.blocks[i].termination = NoIns
    THEN Panic(w, "termination is None")
    ELSE Ok([w EXCEPT !.function_definitions =
                 @ \o blocks_to_words(function, 1,
                         <<function.signature>> \o function.parameters)],
            0)

\* results of the operations that work on a function under construction
FR(w, function, block, id) ==
    [st |-> "ok", w |-> w, id |-> id, err |-> NoError, fn |-> function,
     block |-> block, class |-> "None"]

(***************************************************************************)
(* CachedExpressions.  cache_log is history: every reset, every write      *)
(* through IndexMut and every read through Index, with the slot's value    *)
(* at that moment and whether the access aborted.                          *)
(***************************************************************************)
CacheEvent(op, h, old, new, aborted) ==
    [op |-> op, h |-> h, old |-> old, new |-> new, aborted |-> aborted]

Logged(w, event) == [w EXCEPT !.cache_log = Append(@, event)]

CachedExpressions_reset(w, length) ==
    Logged([w EXCEPT !.cached = [h \in 1..length |-> 0]],
           CacheEvent("reset", 0, 0, 0, FALSE))

\* an IndexMut that hands out the slot whatever it holds
index_mut_unchecked(w, h, id) ==
    IF h \notin DOMAIN w.cached THEN Panic(w, "index out of bounds")
    ELSE Ok(Logged([w EXCEPT !.cached[h] = id],
                   CacheEvent("write", h, w.cached[h], id, FALSE)), id)

\* self.cached[h] = id
index_mut(w, h, id) ==
    IF h \notin DOMAIN w.cached THEN Panic(w, "index out of bounds")
    ELSE IF w.cached[h] # 0
    THEN Panic(Logged(w, CacheEvent("write", h, w.cached[h], id, TRUE)),
               "already cached")
    ELSE Ok(Logged([w EXCEPT !.cached[h] = id],
                   CacheEvent("write", h, 0, id, FALSE)), id)

\* self.cached[h]
index(w, h) ==
    IF h \notin DOMAIN w.cached THEN Panic(w, "index out of bounds")
    ELSE IF w.cached[h] = 0
    THEN Panic(Logged(w, CacheEvent("read", h, 0, 0, TRUE)), "not cached")
    ELSE Ok(Logged(w, CacheEvent("read", h, w.cached[h], w.cached[h],
                                 FALSE)), w.cached[h])

\* the ids of a list of expressions, read from the cache in order; r.ids
\* holds those read so far
RECURSIVE cached_ids(_, _, _)
cached_ids(r, handles, i) ==
    IF i > Len(handles) THEN r
    ELSE Then(index(r.w, handles[i]),
              LAMBDA c : cached_ids([st |-> "ok", w |-> c.w, id |-> 0,
                                     err |-> NoError,
                                     ids |-> Append(r.ids, c.id)],
                                    handles, i + 1))

(***************************************************************************)
(* Expressions.                                                            *)
(***************************************************************************)
SintType == LocalValue(0, "Sint", 4, "None")

\* the loop of write_expression_pointer: from expression h down to the
\* root variable, pushing an index id per Access and AccessIndex on
\* temp_chain; the result carries the root's id and storage class
RECURSIVE pointer_root(_, _, _, _)
pointer_root(w, function, ir_function, h) ==
    LET e == ir_function.expressions[h] IN
    CASE e.tag = "Access" ->
           Then(index(w, e.b),
                LAMBDA c : pointer_root(
                    [c.w EXCEPT !.temp_chain = Append(@, c.id)],
                    function, ir_function, e.a))
      [] e.tag = "AccessIndex" ->
           Then(get_type_id(w, SintType),
                LAMBDA t : Then(create_constant(t.w, t.id, <<e.b>>),
                    LAMBDA c : pointer_root(
                        [c.w EXCEPT !.temp_chain = Append(@, c.id)],
                        function, ir_function, e.a)))
      [] e.tag = "GlobalVariable" ->
           [st |-> "ok", w |-> w, id |-> w.global_variables[e.a].id,
            err |-> NoError, class |-> w.global_variables[e.a].class]
      [] e.tag = "LocalVariable" ->
           [st |-> "ok", w |-> w, id |-> function.variables[e.a].id,
            err |-> NoError, class |-> "Function"]
      [] OTHER -> Panic(w, "Unexpected pointer expression")

\* an access chain whose indices stay in the order of the visit
write_expression_pointer_visit_order(w, function, block, ir_function, expr_handle) ==
    Then(get_type_id(w, ir_function.expressions[expr_handle].ty),
         LAMBDA t :
           Then(pointer_root([t.w EXCEPT !.temp_chain = <<>>], function,
                             ir_function, expr_handle),
                LAMBDA root :
                  IF root.w.temp_chain = <<>>
                  THEN [FR(root.w, function, block, root.id)
                           EXCEPT !.class = root.class]
                  ELSE Fresh(root.w,
                             LAMBDA w1, id :
                               [FR(w1, function,
                                   Push(block, Ins("OpAccessChain", id, t.id,
                                                   <<root.id>>
                                                       \o w1.temp_chain,
                                                   <<>>, <<>>)),
                                   id)
                                   EXCEPT !.class = root.class])))

write_expression_pointer(w, function, block, ir_function, expr_handle) ==
    Then(get_type_id(w, ir_function.expressions[expr_handle].ty),
         LAMBDA t :
           Then(pointer_root([t.w EXCEPT !.temp_chain = <<>>], function,
                             ir_function, expr_handle),
                LAMBDA root :
                  IF root.w.temp_chain = <<>>
                  THEN [FR(root.w, function, block, root.id)
                           EXCEPT !.class = root.class]
                  ELSE Fresh([root.w EXCEPT !.temp_chain = Reverse(@)],
                             LAMBDA w1, id :
                               [FR(w1, function,
                                   Push(block, Ins("OpAccessChain", id, t.id,
                                                   <<root.id>>
                                                       \o w1.temp_chain,
                                                   <<>>, <<>>)),
                                   id)
                                   EXCEPT !.class = root.class])))

\* a base_is_var that looks at the kind of the base only
base_is_var_by_kind(w, ir_function, base) ==
    ir_function.expressions[base].tag \in {"GlobalVariable", "LocalVariable"}

\* base_is_var of the Access and AccessIndex arms
base_is_var(w, ir_function, base) ==
    \/ ir_function.expressions[base].tag
          \in {"GlobalVariable", "LocalVariable"}
    \/ w.cached[base] = 0

BinaryOp(op, left_ty_inner) ==
    IF left_ty_inner.kind = "Float"
    THEN (IF op = "Add" THEN "OpFAdd" ELSE "OpFSub")
    ELSE (IF op = "Add" THEN "OpIAdd" ELSE "OpISub")

\* the match of cache_expression_value: the id of the expression, with
\* the instructions it needs appended to block
expression_id(w, function, block, ir_function, expr_handle, result_type_id) ==
    LET e == ir_function.expressions[expr_handle] IN
    CASE e.tag = "Access" ->
           IF base_is_var(w, ir_function, e.a)
           THEN FR(w, function, block, 0)
           ELSE Then(index(w, e.b),
                  LAMBDA ix :
                    IF typifier_get(ir_function.expressions[e.a]).tag
                          = "Vector"
                    THEN Fresh(ix.w, LAMBDA w1, id :
                           Then(index(w1, e.a),
                             LAMBDA b : FR(b.w, function,
                               Push(block,
                                    Ins("OpVectorExtractDynamic", id,
                                        result_type_id, <<b.id, ix.id>>,
                                        <<>>, <<>>)),
                               id)))
                    ELSE Err(ix.w, "FeatureNotImplemented",
                             <<"access for type">>))
      [] e.tag = "AccessIndex" ->
           IF base_is_var(w, ir_function, e.a)
           THEN FR(w, function, block, 0)
           ELSE IF typifier_get(ir_function.expressions[e.a]).tag
                      \in {"Vector", "Matrix", "Array", "Struct"}
           THEN Fresh(w, LAMBDA w1, id :
                  Then(index(w1, e.a),
                    LAMBDA b : FR(b.w, function,
                      Push(block,
                           Ins("OpCompositeExtract", id, result_type_id,
                               <<b.id>>, <<e.b>>, <<>>)),
                      id)))
           ELSE Err(w, "FeatureNotImplemented",
                    <<"access index for type">>)
      [] e.tag = "GlobalVariable" ->
           IF e.a \in DOMAIN w.global_variables
           THEN FR(w, function, block, w.global_variables[e.a].id)
           ELSE Panic(w, "index out of bounds")
      [] e.tag = "Constant" ->
           IF e.a \in DOMAIN w.lookup_constant
           THEN FR(w, function, block, w.lookup_constant[e.a])
           ELSE Panic(w, "lookup_constant")
      [] e.tag = "Binary" ->
           Fresh(w, LAMBDA w1, id :
             Then(index(w1, e.a),
               LAMBDA l : Then(index(l.w, e.b),
                 LAMBDA r :
                   IF typifier_get(ir_function.expressions[e.a]).tag
                         \in {"Scalar", "Vector"}
                   THEN FR(r.w, function,
                           Push(block,
                                Ins(BinaryOp(e.op,
                                      typifier_get(
                                        ir_function.expressions[e.a])),
                                    id, result_type_id, <<l.id, r.id>>,
                                    <<>>, <<>>)),
                           id)
                   ELSE Panic(r.w, "unimplemented"))))
      [] e.tag = "LocalVariable" ->
           IF e.a \in DOMAIN function.variables
           THEN FR(w, function, block, function.variables[e.a].id)
           ELSE Panic(w, "function.variables")
      [] e.tag = "Load" ->
           Then(write_expression_pointer(w, function, block, ir_function,
                                         e.a),
                LAMBDA p : Fresh(p.w, LAMBDA w1, id :
                  FR(w1, p.fn,
                     Push(p.block, Ins("OpLoad", id, result_type_id,
                                       <<p.id>>, <<>>, <<>>)),
                     id)))
      [] e.tag = "FunctionArgument" ->
           IF e.a + 1 \in DOMAIN function.parameters
           THEN FR(w, function, block, function.parameters[e.a + 1].result)
           ELSE Panic(w, "index out of bounds")
      [] e.tag = "Call" ->
           IF expr_handle \in DOMAIN w.lookup_function_call
           THEN FR(w, function, block, w.lookup_function_call[expr_handle])
           ELSE Panic(w, "lookup_function_call")
      [] OTHER -> Err(w, "FeatureNotImplemented", <<"expression">>)

cache_expression_value(w, function, block, ir_function, expr_handle) ==
    Then(get_type_id(w, ir_function.expressions[expr_handle].ty),
         LAMBDA t :
           Then(expression_id(t.w, function, block, ir_function,
                              expr_handle, t.id),
                LAMBDA r :
                  Then(index_mut(r.w, expr_handle, r.id),
                       LAMBDA c : FR(c.w, r.fn, r.block, r.id))))

\* Statement::Emit: the expressions h..last in order
RECURSIVE emit_range(_, _, _, _)
emit_range(r, ir_function, h, last) ==
    IF h > last THEN r
    ELSE Then(cache_expression_value(r.w, r.fn, r.block, ir_function, h),
              LAMBDA c : emit_range(c, ir_function, h + 1, last))

(***************************************************************************)
(* Statements.  loop_context = [continuing_id, break_id], 0 for None;      *)
(* exit_id 0 is None.                                                      *)
(***************************************************************************)
\* a loop context with its two labels exchanged
LoopContext_exchanged(continuing_id, break_id) ==
    [continuing_id |-> break_id, break_id |-> continuing_id]

LoopContext(continuing_id, break_id) ==
    [continuing_id |-> continuing_id, break_id |-> break_id]

LoopContext_default == LoopContext(0, 0)

Branch(target) == Ins("OpBranch", 0, 0, <<target>>, <<>>, <<>>)

SelectionMerge(merge_id) ==
    Ins("OpSelectionMerge", 0, 0, <<merge_id>>, <<>>, <<"NONE">>)

\* the ids an If allocates: merge, then accept and reject when non-empty
IfLabels(w, accept, reject, K(_, _, _, _)) ==
    Fresh(w, LAMBDA w1, merge_id :
      LET a == IF accept = <<>> THEN [w |-> w1, id |-> 0]
               ELSE generate_id(w1)
          r == IF reject = <<>> THEN [w |-> a.w, id |-> 0]
               ELSE generate_id(a.w)
      IN  K(r.w, merge_id, a.id, r.id))

\* the labels of the cases of a Switch, in case order
RECURSIVE case_labels(_, _, _)
case_labels(g, cases, i) ==
    IF i > Len(cases) THEN g
    ELSE Fresh(g.w, LAMBDA w1, id :
           case_labels([w |-> w1, ids |-> Append(g.ids, id)], cases, i + 1))

\* a finish target that takes no notice of fall_through
case_finish_id_merge(cases, labels, i, default_id, merge_id) == merge_id

case_finish_id(cases, labels, i, default_id, merge_id) ==
    IF cases[i].fall_through
    THEN (IF i + 1 \in DOMAIN labels THEN labels[i + 1] ELSE default_id)
    ELSE merge_id

\* the result type of a Call statement: with a result expression the call
\* id is cached for it and recorded in lookup_function_call
call_result_type(w, statement, id) ==
    IF statement.e1 = 0 THEN Ok(w, w.void_type)
    ELSE Then(index_mut(w, statement.e1, id),
           LAMBDA c :
             IF statement.fn \notin DOMAIN ir.functions
             THEN Panic(c.w, "index out of bounds")
             ELSE IF ir.functions[statement.fn].return_type = 0
             THEN Panic([c.w EXCEPT !.lookup_function_call =
                            Put(@, statement.e1, id)], "unwrap on None")
             ELSE get_type_id(
                    [c.w EXCEPT !.lookup_function_call =
                        Put(@, statement.e1, id)],
                    LookupHandle(ir.functions[statement.fn].return_type)))

\* a check of the termination that never finds one
after_termination_never(block) == FALSE

\* block.termination.is_some(), asked before each statement of a list
after_termination(block) == block.termination # NoIns

RECURSIVE write_block(_, _, _, _, _, _, _)
RECURSIVE write_statements(_, _, _, _, _, _)
RECURSIVE write_statement(_, _, _, _)
RECURSIVE write_cases(_, _, _, _, _, _, _)

\* an arm of an If that is lowered without an exit
write_arm_no_exit(r, block_id, statements, ir_function, merge_id, loop_context) ==
    IF block_id = 0 THEN r
    ELSE write_block(r.w, r.fn, block_id, statements, ir_function,
                     0, loop_context)

\* an arm of an If: nothing is written for an empty arm (block_id 0)
write_arm(r, block_id, statements, ir_function, merge_id, loop_context) ==
    IF block_id = 0 THEN r
    ELSE write_block(r.w, r.fn, block_id, statements, ir_function,
                     merge_id, loop_context)

write_cases(r, cases, labels, i, ir_function, default_id, merge_id) ==
    IF i > Len(cases) THEN r
    ELSE Then(write_block(r.w, r.fn, labels[i], cases[i].body, ir_function,
                          case_finish_id(cases, labels, i, default_id,
                                         merge_id),
                          LoopContext_default),
              LAMBDA c : write_cases(c, cases, labels, i + 1, ir_function,
                                     default_id, merge_id))

\* one arm of the match of write_block; r carries the Writer, the
\* function and the current block
write_statement(r, statement, ir_function, loop_context) ==
    CASE statement.tag = "Emit" ->
           emit_range(r, ir_function, statement.e1, statement.e2)
      [] statement.tag = "Block" ->
           Fresh(r.w, LAMBDA w1, scope_id :
             Fresh(w1, LAMBDA w2, merge_id :
               Then(write_block(w2,
                                consume(r.fn, r.block, Branch(scope_id)),
                                scope_id, statement.body, ir_function,
                                merge_id, loop_context),
                    LAMBDA b : FR(b.w, b.fn, Block_new(merge_id), 0))))
      [] statement.tag = "If" ->
           Then(index(r.w, statement.e1),
             LAMBDA c :
               IfLabels(c.w, statement.body, statement.other,
                 LAMBDA w1, merge_id, accept_id, reject_id :
                   Then(write_arm(
                          FR(w1,
                             consume(r.fn,
                                     Push(r.block, SelectionMerge(merge_id)),
                                     Ins("OpBranchConditional", 0, 0,
                                         << c.id,
                                            IF accept_id = 0 THEN merge_id
                                            ELSE accept_id,
                                            IF reject_id = 0 THEN merge_id
                                            ELSE reject_id >>,
                                         <<>>, <<>>)),
                             Block_new(merge_id), 0),
                          accept_id, statement.body, ir_function, merge_id,
                          loop_context),
                        LAMBDA a :
                          Then(write_arm(a, reject_id, statement.other,
                                         ir_function, merge_id,
                                         loop_context),
                               LAMBDA b : FR(b.w, b.fn,
                                             Block_new(merge_id), 0)))))
      [] statement.tag = "Switch" ->
           Then(index(r.w, statement.e1),
             LAMBDA c :
               Fresh(c.w, LAMBDA w1, merge_id :
                 Fresh(w1, LAMBDA w2, default_id :
                   LET raw == case_labels([w |-> w2, ids |-> <<>>],
                                          statement.cases, 1)
                   IN Then(write_cases(
                             FR(raw.w,
                                consume(r.fn,
                                        Push(r.block,
                                             SelectionMerge(merge_id)),
                                        Ins("OpSwitch", 0, 0,
                                            <<c.id, default_id>> \o raw.ids,
                                            [i \in DOMAIN statement.cases |->
                                               statement.cases[i].value],
                                            <<>>)),
                                Block_new(merge_id), 0),
                             statement.cases, raw.ids, 1, ir_function,
                             default_id, merge_id),
                           LAMBDA d :
                             Then(write_block(d.w, d.fn, default_id,
                                              statement.other, ir_function,
                                              merge_id, LoopContext_default),
                                  LAMBDA b : FR(b.w, b.fn,
                                                Block_new(merge_id), 0))))))
      [] statement.tag = "Loop" ->
           Fresh(r.w, LAMBDA w1, preamble_id :
             Fresh(w1, LAMBDA w2, merge_id :
               Fresh(w2, LAMBDA w3, body_id :
                 Fresh(w3, LAMBDA w4, continuing_id :
                   Then(write_block(
                          w4,
                          consume(consume(r.fn, r.block, Branch(preamble_id)),
                                  Push(Block_new(preamble_id),
                                       Ins("OpLoopMerge", 0, 0,
                                           <<merge_id, continuing_id>>,
                                           <<>>, <<"NONE">>)),
                                  Branch(body_id)),
                          body_id, statement.body, ir_function,
                          continuing_id,
                          LoopContext(continuing_id, merge_id)),
                        LAMBDA b :
                          Then(write_block(b.w, b.fn, continuing_id,
                                           statement.other, ir_function,
                                           preamble_id,
                                           LoopContext(0, merge_id)),
                               LAMBDA k : FR(k.w, k.fn,
                                             Block_new(merge_id), 0)))))))
      [] statement.tag = "Break" ->
           IF loop_context.break_id = 0 THEN Panic(r.w, "unwrap on None")
           ELSE FR(r.w, r.fn,
                   Terminate(r.block, Branch(loop_context.break_id)), 0)
      [] statement.tag = "Continue" ->
           IF loop_context.continuing_id = 0
           THEN Panic(r.w, "unwrap on None")
           ELSE FR(r.w, r.fn,
                   Terminate(r.block, Branch(loop_context.continuing_id)), 0)
      [] statement.tag = "Return" /\ statement.e1 # 0 ->
           Then(index(r.w, statement.e1),
                LAMBDA c : FR(c.w, r.fn,
                              Terminate(r.block,
                                        Ins("OpReturnValue", 0, 0, <<c.id>>,
                                            <<>>, <<>>)),
                              0))
      [] statement.tag = "Return" /\ statement.e1 = 0 ->
           FR(r.w, r.fn,
              Terminate(r.block, Ins("OpReturn", 0, 0, <<>>, <<>>, <<>>)), 0)
      [] statement.tag = "Kill" ->
           FR(r.w, r.fn,
              Terminate(r.block, Ins("OpKill", 0, 0, <<>>, <<>>, <<>>)), 0)
      [] statement.tag = "Store" ->
           Then(write_expression_pointer(r.w, r.fn, r.block, ir_function,
                                         statement.e1),
                LAMBDA p :
                  Then(index(p.w, statement.e2),
                       LAMBDA v : FR(v.w, p.fn,
                                     Push(p.block,
                                          Ins("OpStore", 0, 0,
                                              <<p.id, v.id>>, <<>>, <<>>)),
                                     0)))
      [] statement.tag = "Call" ->
           Fresh(r.w, LAMBDA w1, id :
             Then(cached_ids([st |-> "ok", w |-> w1, id |-> 0,
                              err |-> NoError, ids |-> <<>>],
                             statement.args, 1),
               LAMBDA a :
                 Then(call_result_type(a.w, statement, id),
                   LAMBDA t :
                     IF statement.fn \in DOMAIN t.w.lookup_function
                     THEN FR(t.w, r.fn,
                             Push(r.block,
                                  Ins("OpFunctionCall", id, t.id,
                                      <<t.w.lookup_function[statement.fn]>>
                                          \o a.ids,
                                      <<>>, <<>>)),
                             0)
                     ELSE Panic(t.w, "lookup_function"))))

\* a loop over the statements that ends every open block with OpReturn
write_statements_return(r, statements, i, ir_function, exit_id, loop_context) ==
    IF i > Len(statements)
    THEN FR(r.w,
            [r.fn EXCEPT !.blocks =
                Append(@, IF r.block.termination = NoIns
                          THEN Terminate(r.block,
                                 Ins("OpReturn", 0, 0, <<>>, <<>>, <<>>))
                          ELSE r.block)],
            r.block, 0)
    ELSE IF after_termination(r.block)
    THEN Panic(r.w, "No statements are expected after block termination")
    ELSE Then(write_statement(r, statements[i], ir_function, loop_context),
              LAMBDA s : write_statements(s, statements, i + 1, ir_function,
                                          exit_id, loop_context))

\* the loop of write_block over statements[i..]
write_statements(r, statements, i, ir_function, exit_id, loop_context) ==
    IF i > Len(statements)
    THEN FR(r.w,
            [r.fn EXCEPT !.blocks =
                Append(@, IF r.block.termination = NoIns
                          THEN Terminate(r.block,
                                 IF exit_id # 0 THEN Branch(exit_id)
                                 ELSE Ins("OpReturn", 0, 0, <<>>, <<>>,
                                          <<>>))
                          ELSE r.block)],
            r.block, 0)
    ELSE IF after_termination(r.block)
    THEN Panic(r.w, "No statements are expected after block termination")
    ELSE Then(write_statement(r, statements[i], ir_function, loop_context),
              LAMBDA s : write_statements(s, statements, i + 1, ir_function,
                                          exit_id, loop_context))

write_block(w, function, label_id, statements, ir_function, exit_id, loop_context) ==
    write_statements(FR(w, function, Block_new(label_id), 0), statements, 1,
                     ir_function, exit_id, loop_context)

(***************************************************************************)
(* Functions and entry points.                                             *)
(***************************************************************************)
LocalVariable(ty, init) == [ty |-> ty, init |-> init]

Variable(pointer_type_id, id, class, init_word) ==
    Ins("OpVariable", id, pointer_type_id,
        IF init_word = 0 THEN <<>> ELSE <<init_word>>, <<>>, <<class>>)

\* the loop over the local variables, from the i-th on
RECURSIVE local_variables(_, _, _)
local_variables(r, ir_function, i) ==
    IF i > Len(ir_function.local_variables) THEN r
    ELSE LET variable == ir_function.local_variables[i] IN
         Fresh(r.w, LAMBDA w1, id :
           IF variable.init # 0 /\ variable.init \notin DOMAIN w1.lookup_constant
           THEN Panic(w1, "lookup_constant")
           ELSE Then(get_pointer_id(w1, variable.ty, "Function"),
                  LAMBDA p : local_variables(
                    FR(p.w,
                       [r.fn EXCEPT !.variables =
                          Put(@, i,
                              [id |-> id,
                               instruction |->
                                 Variable(p.id, id, "Function",
                                          IF variable.init = 0 THEN 0
                                          ELSE p.w.lookup_constant[
                                                   variable.init])])],
                       r.block, 0),
                    ir_function, i + 1)))

\* the loop over the arguments; r.ids gathers the parameter type ids
RECURSIVE arguments(_, _, _)
arguments(r, ir_function, i) ==
    IF i > Len(ir_function.arguments) THEN r
    ELSE Fresh(r.w, LAMBDA w1, id :
           Then(get_type_id(w1, LookupHandle(ir_function.arguments[i])),
             LAMBDA t : arguments(
               [st |-> "ok", w |-> t.w, id |-> 0, err |-> NoError,
                fn |-> [r.fn EXCEPT !.parameters =
                          Append(@, Ins("OpFunctionParameter", id, t.id,
                                        <<>>, <<>>, <<>>))],
                ids |-> Append(r.ids, t.id)],
               ir_function, i + 1)))

LookupFunctionType(return_type_id, parameter_type_ids) ==
    [parameter_type_ids |-> parameter_type_ids,
     return_type_id |-> return_type_id]

get_function_type(w, lookup_function_type) ==
    IF lookup_function_type \in DOMAIN w.lookup_function_type
    THEN Ok(w, w.lookup_function_type[lookup_function_type])
    ELSE Fresh(w, LAMBDA w1, id :
           Ok(Declare([w1 EXCEPT !.lookup_function_type =
                          Put(@, lookup_function_type, id)],
                      Ins("OpTypeFunction", id, 0,
                          <<lookup_function_type.return_type_id>>
                              \o lookup_function_type.parameter_type_ids,
                          <<>>, <<>>)),
              id))

\* the loads of the used globals of class Handle, from the i-th global on
RECURSIVE handle_loads(_, _, _)
handle_loads(r, info, i) ==
    IF i > Len(ir.global_variables) THEN r
    ELSE IF i \notin info \/ ir.global_variables[i].class # "Handle"
    THEN handle_loads(r, info, i + 1)
    ELSE Fresh(r.w, LAMBDA w1, id :
           Then(get_type_id(w1, LookupHandle(ir.global_variables[i].ty)),
             LAMBDA t : handle_loads(
               FR([t.w EXCEPT !.global_variables[i].handle_id = id],
                  r.fn,
                  Push(r.block, Ins("OpLoad", id, t.id,
                                    <<t.w.global_variables[i].id>>, <<>>,
                                    <<>>)),
                  0),
               info, i + 1)))

\* the pre-emitted expressions, from the h-th expression on
RECURSIVE pre_emit(_, _, _)
pre_emit(r, ir_function, h) ==
    IF h > Len(ir_function.expressions) THEN r
    ELSE IF ~needs_pre_emit(ir_function.expressions[h])
    THEN pre_emit(r, ir_function, h + 1)
    ELSE Then(cache_expression_value(r.w, r.fn, r.block, ir_function, h),
              LAMBDA c : pre_emit(c, ir_function, h + 1))

\* history: the transient state as the emission of a function finds it.
\* The handle ids are taken once the function has reset them, the rest
\* once it has reset the expression cache.
EnteredHandles(w) ==
    [w EXCEPT !.entered =
        Append(@, [handle_ids |-> [g \in DOMAIN w.global_variables |->
                                      w.global_variables[g].handle_id],
                   cached |-> <<>>,
                   lookup_function_call |-> EmptyMap,
                   temp_chain |-> <<>>,
                   complete |-> FALSE])]

Entered(w) ==
    [w EXCEPT !.entered[Len(w.entered)] =
        [@ EXCEPT !.cached = w.cached,
                  !.lookup_function_call = w.lookup_function_call,
                  !.temp_chain = w.temp_chain,
                  !.complete = TRUE]]

ResetHandleIds(w) ==
    [w EXCEPT !.global_variables =
        [g \in DOMAIN @ |-> [@[g] EXCEPT !.handle_id = 0]]]

\* the return type and the signature: r.ids are the parameter type ids
Signature(r, return_type_id, K(_, _)) ==
    Fresh(r.w, LAMBDA w1, function_id :
      Then(get_function_type(w1, LookupFunctionType(return_type_id, r.ids)),
        LAMBDA t :
          K(FR(t.w,
               [r.fn EXCEPT !.signature =
                   Ins("OpFunction", function_id, return_type_id, <<t.id>>,
                       <<>>, <<"NONE">>)],
               Block_new(0), function_id),
            function_id)))

\* the prelude block and the body
Body(r, ir_function, info, function_id) ==
    Fresh(r.w, LAMBDA w1, prelude_id :
      Then(handle_loads(FR(EnteredHandles(ResetHandleIds(w1)), r.fn, Block_new(prelude_id),
                           0),
                        info, 1),
        LAMBDA h :
          Then(pre_emit(FR(Entered(CachedExpressions_reset(
                                     h.w, Len(ir_function.expressions))),
                           h.fn, h.block, 0),
                        ir_function, 1),
            LAMBDA p :
              Fresh(p.w, LAMBDA w2, main_id :
                Then(write_block(w2, consume(p.fn, p.block, Branch(main_id)),
                                 main_id, ir_function.body, ir_function, 0,
                                 LoopContext_default),
                  LAMBDA b :
                    Then(to_words(b.w, b.fn),
                      LAMBDA t :
                        FR([t.w EXCEPT !.function_definitions =
                              Append(@, Ins("OpFunctionEnd", 0, 0, <<>>,
                                            <<>>, <<>>))],
                           b.fn, b.block, function_id)))))))

\* Typifier::resolve_all: fails on an expression it cannot type
resolve_all(w, ir_function) ==
    IF \E e \in DOMAIN ir_function.expressions :
          ir_function.expressions[e].ty = NoResolution
    THEN Err(w, "Resolve", <<>>)
    ELSE Ok(w, 0)

write_function(w, ir_function, info) ==
    Then(Then(resolve_all(w, ir_function),
              LAMBDA t : local_variables(
                           FR(t.w, [Function_default EXCEPT
                                      !.hasher = t.w.hasher],
                              Block_new(0), 0),
                                         ir_function, 1)),
      LAMBDA l :
        Then(IF ir_function.return_type = 0 THEN Ok(l.w, l.w.void_type)
             ELSE get_type_id(l.w, LookupHandle(ir_function.return_type)),
          LAMBDA t :
            Then(arguments([st |-> "ok", w |-> t.w, id |-> 0,
                            err |-> NoError, fn |-> l.fn, ids |-> <<>>],
                           ir_function, 1),
              LAMBDA a :
                Signature(a, t.id,
                  LAMBDA s, function_id :
                    Body(s, ir_function, info, function_id)))))

(***************************************************************************)
(* The module: constants, global variables, entry points.                  *)
(***************************************************************************)
\* ConstantInner::Scalar.  The 64 bits of the value are kept as two words:
\* high is the value shifted right by 32 and value is the value modulo
\* 2^32; both stay below 2^31, the integers TLC has.
ConstantScalar(kind, width, value) ==
    [tag |-> "Scalar", kind |-> kind, width |-> width, value |-> value,
     high |-> 0, ty |-> 0, components |-> <<>>]
\* a scalar whose value does not fit in 32 bits
ConstantWide(kind, width, high, value) ==
    [ConstantScalar(kind, width, value) EXCEPT !.high = high]
ConstantComposite(ty, components) ==
    [tag |-> "Composite", kind |-> "None", width |-> 0, value |-> 0,
     high |-> 0, ty |-> ty, components |-> components]

\* binding: [tag, a, b] with tag "None", "Location", "Resource", "BuiltIn"
Binding(tag, a, b) == [tag |-> tag, a |-> a, b |-> b]
NoBinding == Binding("None", 0, 0)

\* storage_access is a subset of {"LOAD", "STORE"}
GlobalVariable(class, ty, init, binding, storage_access, interpolation) ==
    [class |-> class, ty |-> ty, init |-> init, binding |-> binding,
     storage_access |-> storage_access, interpolation |-> interpolation]

EntryPoint(stage, name, function, workgroup_size) ==
    [stage |-> stage, name |-> name, function |-> function,
     workgroup_size |-> workgroup_size]

Module(constants, global_variables, functions, entry_points) ==
    [constants |-> constants, global_variables |-> global_variables,
     functions |-> functions, entry_points |-> entry_points]

\* value words with the low word of a 64-bit value before the high one
ConstantWords_low_first(width, high, value) ==
    IF width = 4 THEN <<value>> ELSE <<value, high>>

\* the value words of a scalar constant: `val as u32`, and for width 8
\* `(val >> 32) as u32` before it
ConstantWords(width, high, value) ==
    IF width = 4 THEN <<value>> ELSE <<high, value>>

write_constant_type(w, id, inner) ==
    IF inner.tag = "Scalar"
    THEN Then(get_type_id(w, LocalValue(0, inner.kind, inner.width, "None")),
           LAMBDA t :
             IF inner.kind = "Bool"
             THEN Ok(Declare(t.w,
                       Ins(IF inner.value # 0 THEN "OpConstantTrue"
                           ELSE "OpConstantFalse",
                           id, t.id, <<>>, <<>>, <<>>)), 0)
             ELSE IF inner.width \notin {4, 8}
             THEN Panic(t.w, "unreachable")
             ELSE Ok(Declare(t.w,
                       Ins("OpConstant", id, t.id, <<>>,
                           ConstantWords(inner.width, inner.high,
                                         inner.value), <<>>)),
                     0))
    ELSE IF \E i \in DOMAIN inner.components :
               inner.components[i] \notin DOMAIN w.lookup_constant
    THEN Panic(w, "lookup_constant")
    ELSE Then(get_type_id(w, LookupHandle(inner.ty)),
           LAMBDA t :
             Ok(Declare(t.w,
                  Ins("OpConstantComposite", id, t.id,
                      [i \in DOMAIN inner.components |->
                          t.w.lookup_constant[inner.components[i]]],
                      <<>>, <<>>)), 0))

Decorate(id, decoration, operands) ==
    Ins("OpDecorate", 0, 0, <<id>>, operands, <<decoration>>)

InterpolationDecoration(interpolation) ==
    CASE interpolation = "Linear" -> "NoPerspective"
      [] interpolation = "Flat" -> "Flat"
      [] interpolation = "Patch" -> "Patch"
      [] interpolation = "Centroid" -> "Centroid"
      [] interpolation = "Sample" -> "Sample"
      [] OTHER -> "None"

\* the decorations of a global variable, in the order they are pushed
GlobalDecorations(id, global_variable) ==
    (IF global_variable.storage_access = {"LOAD"}
     THEN <<Decorate(id, "NonWritable", <<>>)>>
     ELSE IF global_variable.storage_access = {"STORE"}
     THEN <<Decorate(id, "NonReadable", <<>>)>>
     ELSE <<>>)
    \o (IF InterpolationDecoration(global_variable.interpolation) # "None"
        THEN <<Decorate(id,
                 InterpolationDecoration(global_variable.interpolation),
                 <<>>)>>
        ELSE <<>>)
    \o (CASE global_variable.binding.tag = "Location" ->
               <<Decorate(id, "Location", <<global_variable.binding.a>>)>>
          [] global_variable.binding.tag = "Resource" ->
               << Decorate(id, "DescriptorSet",
                           <<global_variable.binding.a>>),
                  Decorate(id, "Binding", <<global_variable.binding.b>>) >>
          [] global_variable.binding.tag = "BuiltIn" ->
               <<Decorate(id, "BuiltIn", <<global_variable.binding.a>>)>>
          [] OTHER -> <<>>)

\* the result has the instruction in ins and the storage class in class
write_global_variable(w, handle) ==
    LET global_variable == ir.global_variables[handle] IN
    Fresh(w, LAMBDA w1, id :
      Then(check(w1, StorageClassCapabilities(
                       parse_to_spirv_storage_class(w1,
                                                    global_variable.class))),
        LAMBDA c :
          IF global_variable.init # 0
             /\ global_variable.init \notin DOMAIN c.w.lookup_constant
          THEN Panic(c.w, "lookup_constant")
          ELSE Then(get_pointer_id(c.w, global_variable.ty,
                                   global_variable.class),
                 LAMBDA p :
                   [st |-> "ok",
                    w |-> [p.w EXCEPT !.annotations =
                             @ \o GlobalDecorations(id, global_variable)],
                    id |-> id, err |-> NoError,
                    ins |-> Variable(p.id, id,
                              parse_to_spirv_storage_class(
                                p.w, global_variable.class),
                              IF global_variable.init = 0 THEN 0
                              ELSE p.w.lookup_constant[global_variable.init]),
                    class |-> parse_to_spirv_storage_class(
                                p.w, global_variable.class)])))

\* an interface of all the globals the function uses, whatever their class
RECURSIVE interface_ids_any_class(_, _, _)
interface_ids_any_class(w, info, i) ==
    IF i > Len(ir.global_variables) THEN <<>>
    ELSE (IF i \in info THEN <<w.global_variables[i].id>> ELSE <<>>)
         \o interface_ids_any_class(w, info, i + 1)

\* the interface of an entry point: the used Input and Output globals
RECURSIVE interface_ids(_, _, _)
interface_ids(w, info, i) ==
    IF i > Len(ir.global_variables) THEN <<>>
    ELSE (IF i \in info
             /\ ir.global_variables[i].class \in {"Input", "Output"}
          THEN <<w.global_variables[i].id>> ELSE <<>>)
         \o interface_ids(w, info, i + 1)

\* spirv::ExecutionMode::required_capabilities
ExecutionModeCapabilities(mode) ==
    IF mode = "OriginUpperLeft" THEN <<"Shader">> ELSE <<>>

\* spirv::ExecutionModel::required_capabilities
ExecutionModelCapabilities(model) == <<"Shader">>

ExecutionMode(stage) ==
    IF stage = "Fragment" THEN "OriginUpperLeft" ELSE "LocalSize"

ExecutionModel(stage) ==
    CASE stage = "Vertex" -> "Vertex"
      [] stage = "Fragment" -> "Fragment"
      [] stage = "Compute" -> "GLCompute"

\* the execution mode of a Fragment or Compute entry point
write_execution_mode(w, entry_point, function_id) ==
    IF entry_point.stage = "Vertex" THEN Ok(w, 0)
    ELSE Then(check(w, ExecutionModeCapabilities(
                         ExecutionMode(entry_point.stage))),
           LAMBDA c :
             Ok([c.w EXCEPT !.execution_modes =
                   Append(@, Ins("OpExecutionMode", 0, 0, <<function_id>>,
                                 IF entry_point.stage = "Compute"
                                 THEN entry_point.workgroup_size ELSE <<>>,
                                 <<ExecutionMode(entry_point.stage)>>))],
                0))

\* the result has the OpEntryPoint instruction in ins
write_entry_point(w, entry_point) ==
    Then(write_function(w, entry_point.function, entry_point.function.info),
      LAMBDA f :
        Then(write_execution_mode(f.w, entry_point, f.id),
          LAMBDA m :
            Then(check(m.w, ExecutionModelCapabilities(
                              ExecutionModel(entry_point.stage))),
              LAMBDA c :
                [st |-> "ok",
                 w |-> IF c.w.debug
                       THEN [c.w EXCEPT !.debugs =
                               Append(@, Ins("OpName", 0, 0, <<f.id>>, <<>>,
                                             <<entry_point.name>>))]
                       ELSE c.w,
                 id |-> f.id, err |-> NoError, fn |-> f.fn,
                 ins |-> Ins("OpEntryPoint", 0, 0,
                             <<f.id>>
                                 \o interface_ids(c.w,
                                      entry_point.function.info, 1),
                             <<>>,
                             <<ExecutionModel(entry_point.stage),
                               entry_point.name>>)])))

(***************************************************************************)
(* Writer::write, one step per item of the module.  pc is the loop of      *)
(* write_logical_layout the Writer is in and cursor the item it is at.     *)
(***************************************************************************)
\* a write_physical_layout that takes the last id for the bound
write_physical_layout_last(w) == [w EXCEPT !.bound = w.id_count]

write_physical_layout(w) == [w EXCEPT !.bound = w.id_count + 1]

RECURSIVE SetToSeq(_)
SetToSeq(S) ==
    IF S = {} THEN <<>>
    ELSE LET x == CHOOSE y \in S : TRUE IN <<x>> \o SetToSeq(S \ {x})

MAGIC_NUMBER == 119734787

GENERATOR == 0

\* Writer::new: raw_version
raw_version(version) == version[1] * 65536 + version[2] * 256

\* PhysicalLayout::in_words
physical_in_words(w) ==
    <<MAGIC_NUMBER, raw_version(w.version), GENERATOR, w.bound, 0>>

\* LogicalLayout::in_words
logical_in_words(w) ==
    w.capabilities_sec \o w.ext_inst_imports \o w.memory_model
        \o w.entry_points \o w.execution_modes \o w.debugs_sec
        \o w.annotations_sec \o w.declarations \o w.function_definitions

\* spirv::MemoryModel::required_capabilities of GLSL450
MemoryModelCapabilities == <<"Shader">>

\* the loop the Writer enters after loop phase when that one is done
Phases == <<"constants", "globals", "functions", "entry_points", "finish">>

Items(phase) ==
    CASE phase = "constants" -> Len(ir.constants)
      [] phase = "globals" -> Len(ir.global_variables)
      [] phase = "functions" -> Len(ir.functions)
      [] phase = "entry_points" -> Len(ir.entry_points)
      [] OTHER -> 1

RECURSIVE PhaseFrom(_)
PhaseFrom(p) ==
    IF Items(Phases[p]) > 0 THEN Phases[p] ELSE PhaseFrom(p + 1)

\* where the Writer stands after item cursor of loop p
After(p) ==
    IF cursor < Items(Phases[p]) THEN [pc |-> Phases[p], cursor |-> cursor + 1]
    ELSE [pc |-> PhaseFrom(p + 1), cursor |-> 1]

\* self.global_variables.clear(), between the constants and the globals
LeaveConstants(w, next) ==
    IF next.pc = "constants" THEN w ELSE [w EXCEPT !.global_variables = <<>>]

Outcome(r) == [st |-> r.st, err |-> r.err]

\* a step of write that cannot end it: on an error or an abort of r the
\* call is over and the words are left alone
Step(r, next, lowered) ==
    /\ writer' = r.w
    /\ result' = Outcome(r)
    /\ pc' = IF r.st = "ok" THEN next.pc
             ELSE IF r.st = "err" THEN "failed" ELSE "aborted"
    /\ cursor' = IF r.st = "ok" THEN next.cursor ELSE cursor
    /\ func' = IF r.st = "ok" /\ lowered THEN Append(func, r.fn) ELSE func
    /\ UNCHANGED <<ir, words, trace>>

\* Step for the one entry point of a module: the module goes with it
BlockStep(r) ==
    /\ writer' = r.w
    /\ result' = Outcome(r)
    /\ pc' = IF r.st = "ok" THEN "finish"
             ELSE IF r.st = "err" THEN "failed" ELSE "aborted"
    /\ func' = IF r.st = "ok" THEN Append(func, r.fn) ELSE func
    /\ UNCHANGED <<cursor, words, trace>>

\* the test of write_physical_layout: on a Writer that has written nothing
CallWritePhysicalLayout ==
    /\ pc = "start"
    /\ writer' = write_physical_layout(writer)
    /\ pc' = "tested"
    /\ UNCHANGED <<ir, cursor, result, words, func, trace>>

\* a head of write that leaves the declaration of the void type out
begin_write_no_void(w) ==
    [w EXCEPT
       !.lookup_function = EmptyMap,
       !.lookup_function_type = EmptyMap,
       !.lookup_function_call = EmptyMap,
       !.ext_inst_imports =
          Append(@, Ins("OpExtInstImport", w.gl450_ext_inst_id, 0, <<>>,
                        <<>>, <<"GLSL.std.450">>)),
       !.debugs =
          IF w.debug
          THEN Append(@, Ins("OpSource", 0, 0, <<>>, <<450>>, <<"GLSL">>))
          ELSE @]

\* the head of write and of write_logical_layout, up to the first loop
begin_write(w) ==
    [w EXCEPT
       !.lookup_function = EmptyMap,
       !.lookup_function_type = EmptyMap,
       !.lookup_function_call = EmptyMap,
       !.declarations =
          Append(@, Ins("OpTypeVoid", w.void_type, 0, <<>>, <<>>, <<>>)),
       !.ext_inst_imports =
          Append(@, Ins("OpExtInstImport", w.gl450_ext_inst_id, 0, <<>>,
                        <<>>, <<"GLSL.std.450">>)),
       !.debugs =
          IF w.debug
          THEN Append(@, Ins("OpSource", 0, 0, <<>>, <<450>>, <<"GLSL">>))
          ELSE @]

\* one turn of the loop over the constants
write_constant(w, handle) ==
    Fresh(w, LAMBDA w1, id :
      Then(write_constant_type(
             [w1 EXCEPT !.lookup_constant = Put(@, handle, id)],
             id, ir.constants[handle]),
           LAMBDA c : Ok(c.w, id)))

\* one turn of the loop over the global variables
write_global(w, handle) ==
    Then(write_global_variable(
           IF Types[ir.global_variables[handle].ty].tag = "Struct"
           THEN [w EXCEPT !.struct_type_handles =
                   Put(@, ir.global_variables[handle].ty,
                       ir.global_variables[handle].storage_access)]
           ELSE w,
           handle),
         LAMBDA g :
           Ok([Declare(g.w, g.ins) EXCEPT !.global_variables =
                 Append(@, [id |-> g.id, handle_id |-> 0,
                            class |-> g.class])],
              g.id))

\* a turn that enters the function under the handle of the next one
write_module_function_next(w, handle) ==
    Then(write_function(w, ir.functions[handle], ir.functions[handle].info),
         LAMBDA f :
           FR([f.w EXCEPT !.lookup_function = Put(@, handle + 1, f.id)],
              f.fn, f.block, f.id))

\* one turn of the loop over the functions
write_module_function(w, handle) ==
    Then(write_function(w, ir.functions[handle], ir.functions[handle].info),
         LAMBDA f :
           FR([f.w EXCEPT !.lookup_function = Put(@, handle, f.id)],
              f.fn, f.block, f.id))

\* one turn of the loop over the entry points
write_module_entry_point(w, ep_index) ==
    Then(write_entry_point(w, ir.entry_points[ep_index]),
         LAMBDA e :
           FR([e.w EXCEPT !.entry_points = Append(@, e.ins)],
              e.fn, Block_new(0), e.id))

WriteBegin ==
    /\ pc = "start"
    /\ Step(Ok(LeaveConstants(begin_write(writer),
                              [pc |-> PhaseFrom(1), cursor |-> 1]), 0),
            [pc |-> PhaseFrom(1), cursor |-> 1], FALSE)

WriteConstant ==
    /\ pc = "constants"
    /\ Step(Then(write_constant(writer, cursor),
                 LAMBDA c : Ok(LeaveConstants(c.w, After(1)), c.id)),
            After(1), FALSE)

WriteGlobal ==
    /\ pc = "globals"
    /\ Step(write_global(writer, cursor), After(2), FALSE)

WriteFunction ==
    /\ pc = "functions"
    /\ Step(write_module_function(writer, cursor), After(3), TRUE)

WriteEntryPoint ==
    /\ pc = "entry_points"
    /\ Step(write_module_entry_point(writer, cursor), After(4), TRUE)

\* the end of write_logical_layout: capabilities, memory model, debug and
\* annotation sections
finish_logical_layout(w) ==
    Then(check([w EXCEPT !.capabilities_sec =
                   @ \o [i \in 1..Cardinality(w.capabilities) |->
                           Ins("OpCapability", 0, 0, <<>>, <<>>,
                               <<hash_order(w.hasher,
                                   SetToSeq(w.capabilities))[i]>>)]],
               <<>>),
      LAMBDA a :
        Then(check(a.w, MemoryModelCapabilities),
          LAMBDA m :
            Ok([m.w EXCEPT
                  !.memory_model =
                     Append(@, Ins("OpMemoryModel", 0, 0, <<>>, <<>>,
                                   <<"Logical", "GLSL450">>)),
                  !.debugs_sec = IF m.w.debug THEN @ \o m.w.debugs ELSE @,
                  !.annotations_sec = @ \o m.w.annotations],
               0)))

\* a write that hands over the words whatever the outcome
write_words_always(sink, r) ==
    sink \o physical_in_words(r.w) \o logical_in_words(r.w)

\* the end of write: the two in_words run only after write_logical_layout
\* has returned Ok
write_words(sink, r) ==
    IF r.st = "ok"
    THEN sink \o physical_in_words(r.w) \o logical_in_words(r.w)
    ELSE sink

\* the rest of write: write_physical_layout and the two in_words
WriteFinish ==
    /\ pc = "finish"
    /\ LET r == Then(finish_logical_layout(writer),
                     LAMBDA l : Ok(write_physical_layout(l.w), 0))
       IN  /\ writer' = r.w
           /\ result' = Outcome(r)
           /\ pc' = IF r.st = "ok" THEN "done" ELSE "failed"
           /\ words' = write_words(words, r)
           /\ UNCHANGED <<ir, cursor, func, trace>>

Next ==
    \/ CallWritePhysicalLayout
    \/ WriteBegin
    \/ WriteConstant
    \/ WriteGlobal
    \/ WriteFunction
    \/ WriteEntryPoint
    \/ WriteFinish

(***************************************************************************)
(* SpecTypes: one Writer, any sequence of at most MaxCalls calls of        *)
(* generate_id, get_type_id and get_pointer_id over the arena Types, and   *)
(* the turns of the loop over the constants, in the order of the arena.    *)
(* trace records every call: its arguments, its answer, and id_count and   *)
(* the length of the declarations buffer before and after it.  A call that *)
(* panicked is the last one.                                               *)
(***************************************************************************)
TypeOptions ==
    { DefaultOptions,
      [lang_version |-> <<1, 3>>, capabilities |-> {}, debug |-> FALSE] }

TypeKeys ==
    {LookupHandle(h) : h \in {1, 2, 3, 5, 6, 7, 8, 10, 11, 12, 14}}
        \cup {LocalValue(0, "Float", 4, "None"), LocalSampledImage(12)}

\* the constant that is the length of the array type 14
TypeConstants == <<ConstantScalar("Uint", 4, 2)>>

PointerArgs ==
    { <<1, "Function">>, <<2, "Function">>, <<5, "Function">>,
      <<7, "Uniform">>, <<7, "Storage">> }

Idle == [op |-> "none", key |-> NoLocal, st |-> "ok", id |-> 0,
         id_before |-> 0, id_after |-> 0, decl_before |-> 0,
         decl_after |-> 0, w |-> 0]

CallRecord(op, key, w, r) ==
    [op |-> op, key |-> key, st |-> r.st, id |-> r.id,
     id_before |-> w.id_count, id_after |-> r.w.id_count,
     decl_before |-> Len(w.declarations),
     decl_after |-> Len(r.w.declarations), w |-> r.w]

TypesInit ==
    /\ writer \in {NewWriter(o) : o \in TypeOptions}
    /\ pc = "types"
    /\ ir = Module(TypeConstants, <<>>, <<>>, <<>>)
    /\ cursor = 0
    /\ result = Idle
    /\ words = <<>>
    /\ func = <<>>
    /\ trace = <<>>

\* rec is a CallRecord with the Writer after the call in field w
TypesStep(rec) ==
    /\ result.st # "panic"
    /\ writer' = rec.w
    /\ result' = [rec EXCEPT !.w = 0]
    /\ trace' = Append(trace, [rec EXCEPT !.w = 0])
    /\ UNCHANGED <<pc, ir, cursor, words, func>>

CallGenerateId ==
    /\ pc = "types" /\ Len(trace) < MaxCalls
    /\ TypesStep(CallRecord("generate_id", NoLocal, writer,
                            Fresh(writer, LAMBDA w1, id : Ok(w1, id))))

CallGetTypeId ==
    /\ pc = "types" /\ Len(trace) < MaxCalls
    /\ \E key \in TypeKeys :
          TypesStep(CallRecord("get_type_id", key, writer,
                               get_type_id(writer, key)))

CallGetPointerId ==
    /\ pc = "types" /\ Len(trace) < MaxCalls
    /\ \E a \in PointerArgs :
          TypesStep(CallRecord("get_pointer_id", LocalPointer(a[1], a[2]),
                               writer, get_pointer_id(writer, a[1], a[2])))

\* the next turn of the loop over the constants of write_logical_layout
CallWriteConstant ==
    /\ pc = "types" /\ Len(trace) < MaxCalls
    /\ Cardinality(DOMAIN writer.lookup_constant) < Len(ir.constants)
    /\ TypesStep(CallRecord("write_constant", NoLocal, writer,
                            write_constant(writer,
                                Cardinality(DOMAIN writer.lookup_constant)
                                    + 1)))

TypesNext ==
    \/ CallGenerateId
    \/ CallGetTypeId
    \/ CallGetPointerId
    \/ CallWriteConstant

SpecTypes == TypesInit /\ [][TypesNext]_vars

(***************************************************************************)
(* SpecNew: Writer::new over option values; ir holds the options given     *)
(* and writer is NoWriter until a Writer is returned.                      *)
(***************************************************************************)
Majors == {0, 1, 2, 255}
Minors == {0, 1, 3, 5, 6, 255}

NewOptions ==
    { [lang_version |-> <<major, minor>>, capabilities |-> c, debug |-> d] :
        major \in Majors, minor \in Minors,
        c \in {{}, {"Shader"}, {"Shader", "Sampled1D"}}, d \in BOOLEAN }

NewInit ==
    /\ writer = NoWriter
    /\ ir \in NewOptions
    /\ pc = "new"
    /\ cursor = 0
    /\ result = [st |-> "none", err |-> NoError, version |-> <<>>]
    /\ words = <<>>
    /\ func = <<>>
    /\ trace = <<>>

CallWriterNew ==
    /\ pc = "new"
    /\ LET r == Writer_new(ir)
       IN  /\ writer' = r.w
           /\ result' = [st |-> r.st, err |-> r.err, version |-> r.version]
           /\ pc' = IF r.st = "ok" THEN "constructed" ELSE "rejected"
    /\ UNCHANGED <<ir, cursor, words, func, trace>>

NewNext == CallWriterNew

SpecNew == NewInit /\ [][NewNext]_vars

(***************************************************************************)
(* Spec: Writer::write on a fresh Writer, over the modules of Modules.     *)
(***************************************************************************)
H(h) == LookupHandle(h)

\* float callee(float a) { return a; }
Callee ==
    IrFunction(<<1>>, 1, <<>>, <<EFunctionArgument(0, H(1))>>,
               <<SReturn(1)>>, {})

\* a function that calls function 1 and stores the sum of the result and
\* of its local variable to that variable
Caller ==
    IrFunction(<<>>, 0, <<LocalVariable(1, 1)>>,
               << ELocalVariable(1, LocalPointer(1, "Function")),
                  EConstant(1, H(1)),
                  ECall(1, H(1)),
                  ELoad(1, H(1)),
                  EBinary("Add", 3, 4, H(1)) >>,
               <<SCall(1, <<2>>, 3), SEmit(4, 5), SStore(1, 5)>>, {})

\* writes a component of a local vector and of the Output global 2
ChainStores ==
    IrFunction(<<>>, 0, <<LocalVariable(3, 0)>>,
               << ELocalVariable(1, LocalPointer(3, "Function")),
                  EAccessIndex(1, 1, LocalValue(0, "Float", 4, "Function")),
                  EConstant(1, H(1)),
                  EGlobalVariable(2, LocalPointer(3, "Output")),
                  EAccessIndex(4, 0, LocalValue(0, "Float", 4, "Output")),
                  EGlobalVariable(1, LocalPointer(1, "Input")),
                  ELoad(6, H(1)) >>,
               << SStore(2, 3), SEmit(7, 7), SStore(5, 7),
                  SIf(8, <<SReturn(0)>>, <<>>) >>,
               {1, 2})

\* ChainStores with a boolean constant as expression 8
Branching ==
    [ChainStores EXCEPT !.expressions = Append(@, EConstant(3, H(15)))]

\* loads the image global 3 in its prelude and loops until a break
Looping ==
    IrFunction(<<>>, 0, <<>>,
               << EConstant(3, H(15)), EConstant(2, H(4)) >>,
               << SLoop(<< SIf(1, <<SBreak>>, <<SContinue>>) >>, <<>>),
                  SSwitch(2, << SwitchCase(0, <<>>, TRUE),
                                SwitchCase(1, <<SKill>>, FALSE) >>,
                          <<SBlock(<<>>)>>) >>,
               {3})

\* calls itself
SelfCall ==
    IrFunction(<<>>, 0, <<>>, <<>>, <<SCall(1, <<>>, 0)>>, {})

\* calls the function that comes after it in the arena
ForwardCall ==
    IrFunction(<<>>, 0, <<>>, <<>>, <<SCall(2, <<>>, 0)>>, {})

\* lowers the Call expression 3 of Caller without a Call statement
StaleCall ==
    [Caller EXCEPT !.body = <<SEmit(3, 3), SEmit(4, 5), SStore(1, 5)>>]

\* a statement after a return
DeadCode ==
    IrFunction(<<>>, 0, <<>>, <<>>, <<SReturn(0), SKill>>, {})

\* two local variables, the second one initialised
TwoLocals ==
    IrFunction(<<>>, 0, <<LocalVariable(1, 0), LocalVariable(4, 2)>>,
               <<ELocalVariable(1, H(1)), EConstant(1, H(1))>>,
               <<SStore(1, 2)>>, {})

\* emits an expression the Writer does not implement
Unsupported ==
    IrFunction(<<>>, 0, <<>>, <<EOther(H(1))>>, <<SEmit(1, 1)>>, {})

\* has an expression the Typifier cannot type
Unresolved ==
    IrFunction(<<>>, 0, <<>>, <<EOther(NoResolution)>>, <<>>, {})

\* stores and loads through chains of indices on the local matrix 1 and
\* without index on the Output global 2, and takes components as values
Chains ==
    IrFunction(<<>>, 0, <<LocalVariable(11, 0)>>,
               << ELocalVariable(1, LocalPointer(11, "Function")),
                  EAccessIndex(1, 1, LocalValue(3, "Float", 4, "Function")),
                  EAccessIndex(2, 2, LocalValue(0, "Float", 4, "Function")),
                  EConstant(1, H(1)),
                  EConstant(2, H(4)),
                  EAccess(2, 5, LocalValue(0, "Float", 4, "Function")),
                  EGlobalVariable(2, LocalPointer(3, "Output")),
                  EConstant(4, H(3)),
                  ELoad(3, H(1)),
                  EAccessIndex(8, 1, H(1)),
                  EAccess(8, 5, H(1)),
                  ELoad(7, H(3)) >>,
               << SEmit(2, 3), SStore(3, 4), SStore(6, 4), SStore(7, 8),
                  SEmit(9, 12) >>,
               {2})

\* writes the Output global 2 and names the Uniform global 4; the Input
\* global 1 and the image global 3 are not used
UsesOutput ==
    IrFunction(<<>>, 0, <<>>,
               << EGlobalVariable(2, LocalPointer(3, "Output")),
                  EConstant(4, H(3)),
                  EGlobalVariable(4, LocalPointer(9, "Uniform")) >>,
               <<SStore(1, 2)>>, {2, 4})

\* stores through an index on a constant, which is no variable
BadRoot ==
    IrFunction(<<>>, 0, <<>>,
               << EConstant(4, H(3)),
                  EAccessIndex(1, 0, LocalValue(0, "Float", 4, "Function")),
                  EConstant(1, H(1)) >>,
               <<SStore(2, 3)>>, {})

Constants ==
    << ConstantScalar("Float", 4, 1065353216),
       ConstantScalar("Sint", 4, 2),
       ConstantScalar("Bool", 1, 1),
       ConstantComposite(3, <<1, 1>>) >>

Globals ==
    << GlobalVariable("Input", 1, 0, Binding("Location", 0, 0), {}, "Flat"),
       GlobalVariable("Output", 3, 0, Binding("BuiltIn", 0, 0), {}, "None"),
       GlobalVariable("Handle", 12, 0, Binding("Resource", 0, 1), {},
                      "None"),
       GlobalVariable("Uniform", 9, 0, Binding("Resource", 0, 0), {"LOAD"},
                      "None") >>

\* an image of dimension D1, which needs the capability Sampled1D
Globals1D ==
    << GlobalVariable("Handle", 16, 0, Binding("Resource", 0, 0), {},
                      "None") >>

\* integers of 32 and of 64 bits, some with bits above the 32nd, and the
\* two booleans
WideConstants ==
    << ConstantScalar("Sint", 4, 2),
       ConstantWide("Uint", 4, 1, 7),
       ConstantWide("Sint", 8, 3, 5),
       ConstantWide("Uint", 8, 2147483647, 0),
       ConstantScalar("Uint", 8, 9),
       ConstantScalar("Bool", 1, 0),
       ConstantScalar("Bool", 1, 1) >>

\* a signed integer of 16 bits after one of 32
ShortConstants ==
    << ConstantScalar("Sint", 4, 2), ConstantScalar("Sint", 2, 1) >>

\* a composite constant of the block struct 9
BlockConstants == Constants \o <<ConstantComposite(9, <<4>>)>>

\* the block struct 9 as a uniform buffer and as a storage buffer
UniformGlobals ==
    << GlobalVariable("Uniform", 9, 0, Binding("Resource", 0, 0), {},
                      "None") >>

StorageGlobals ==
    << GlobalVariable("Storage", 9, 0, Binding("Resource", 0, 0),
                      {"LOAD", "STORE"}, "None") >>

Modules ==
    { Module(<<>>, <<>>, <<>>, <<>>),
      Module(Constants, UniformGlobals, <<>>, <<>>),
      Module(Constants, StorageGlobals, <<>>, <<>>),
      Module(BlockConstants, UniformGlobals, <<>>, <<>>),
      Module(Constants, Globals, <<Callee, Caller>>,
             <<EntryPoint("Vertex", "main", Branching, <<>>)>>),
      Module(Constants, Globals, <<Callee, Caller, Caller>>,
             <<EntryPoint("Fragment", "main", Looping, <<>>)>>),
      Module(Constants, Globals, <<Branching, Looping>>,
             << EntryPoint("Compute", "main", Looping, <<1, 1, 1>>),
                EntryPoint("Vertex", "other", Branching, <<>>) >>),
      Module(Constants, Globals, <<Callee, Caller, StaleCall>>, <<>>),
      Module(Constants, <<>>, <<SelfCall>>, <<>>),
      Module(Constants, Globals, <<Callee, DeadCode>>,
             <<EntryPoint("Vertex", "main", Branching, <<>>)>>),
      Module(<<>>, Globals1D, <<>>, <<>>),
      Module(Constants, Globals, <<Callee, Unsupported>>, <<>>),
      Module(Constants, Globals, <<TwoLocals>>, <<>>),
      Module(Constants, Globals, <<Callee, Caller>>,
             <<EntryPoint("Vertex", "main", Unresolved, <<>>)>>),
      Module(Constants, Globals, <<ChainStores>>, <<>>),
      Module(Constants, Globals, <<Chains>>, <<>>),
      Module(Constants, Globals, <<BadRoot>>, <<>>),
      Module(WideConstants, <<>>, <<>>, <<>>),
      Module(Constants, <<>>, <<ForwardCall, TwoLocals>>, <<>>),
      Module(ShortConstants, <<>>, <<>>, <<>>),
      Module(Constants, <<>>, <<>>,
             <<EntryPoint("Vertex", "main", TwoLocals, <<>>)>>),
      Module(Constants, <<>>, <<>>,
             <<EntryPoint("Fragment", "main", TwoLocals, <<>>)>>),
      Module(Constants, Globals, <<Callee>>,
             << EntryPoint("Vertex", "main", UsesOutput, <<>>),
                EntryPoint("Fragment", "other", Branching, <<>>) >>) }

WriterOptions ==
    { DefaultOptions,
      [lang_version |-> <<1, 0>>, capabilities |-> {"Shader"},
       debug |-> TRUE],
      [lang_version |-> <<1, 3>>, capabilities |-> {"Shader", "Sampled1D"},
       debug |-> FALSE],
      [lang_version |-> <<1, 0>>, capabilities |-> {}, debug |-> FALSE],
      [lang_version |-> <<1, 0>>, capabilities |-> {"Sampled1D"},
       debug |-> FALSE] }

NoOutcome == [st |-> "none", err |-> NoError]

Init ==
    /\ writer \in {NewWriter(o) : o \in WriterOptions}
    /\ ir \in Modules
    /\ pc = "start"
    /\ cursor = 0
    /\ result = NoOutcome
    /\ words = <<>>
    /\ func = <<>>
    /\ trace = <<>>

Spec == Init /\ [][Next]_vars

(***************************************************************************)
(* SpecTwice: two freshly constructed Writers, one after the other, on     *)
(* the same options and module.  trace keeps what the first one answered   *)
(* and appended.                                                           *)
(***************************************************************************)
\* a hasher with keys of its own for every map that is built
build_hasher_random(previous) ==
    IF previous = "ascending" THEN "descending" ELSE "ascending"

\* FastHashMap::default(): the hasher of a map built after another one is
\* the same hasher
build_hasher(previous) == previous

TwiceInit ==
    /\ writer \in {[NewWriter(o) EXCEPT !.hasher = h] :
                      o \in WriterOptions, h \in Hashers}
    /\ ir \in Modules
    /\ pc = "start"
    /\ cursor = 0
    /\ result = NoOutcome
    /\ words = <<>>
    /\ func = <<>>
    /\ trace = <<>>

\* the second Writer::new, on the options of the first, and a new vector
NewAgain ==
    /\ pc \in {"done", "failed", "aborted"}
    /\ trace = <<>>
    /\ trace' = <<[result |-> result, words |-> words]>>
    /\ writer' = [NewWriter([lang_version |-> writer.version,
                             capabilities |-> writer.capabilities,
                             debug |-> writer.debug])
                    EXCEPT !.hasher = build_hasher(writer.hasher)]
    /\ pc' = "start"
    /\ cursor' = 0
    /\ result' = NoOutcome
    /\ words' = <<>>
    /\ func' = <<>>
    /\ UNCHANGED ir

TwiceNext == Next \/ NewAgain

SpecTwice == TwiceInit /\ [][TwiceNext]_vars

(***************************************************************************)
(* SpecBlock: Writer::write on modules whose entry point has a generated   *)
(* body: every statement list of at most MaxNodes nodes (statements and    *)
(* switch cases, nested ones counted) over the expressions of Generated.   *)
(***************************************************************************)
MaxNodes == 2

Leaves ==
    { SEmit(3, 4), SEmit(4, 4), SEmit(5, 5), SStore(2, 4),
      SCall(1, <<3>>, 5), SReturn(0), SBreak, SContinue, SKill }

RECURSIVE StatementLists(_)
RECURSIVE Statements(_)
RECURSIVE CaseLists(_)

\* the lists of cases of n nodes at most: a case counts for one node, and
\* so does each statement of its body
CaseLists(n) ==
    IF n = 0 THEN {<<>>}
    ELSE {<<>>} \cup
         UNION { { <<SwitchCase(Len(rest) + 1, body, fall_through)>> \o rest :
                     body \in StatementLists(k),
                     fall_through \in BOOLEAN,
                     rest \in CaseLists(n - 1 - k) } : k \in 0..(n - 1) }

\* the statements of n nodes at most, n > 0: a statement counts for one
\* node, and so does each statement and each case nested in it
Statements(n) ==
    Leaves
      \cup {SBlock(body) : body \in StatementLists(n - 1)}
      \cup UNION { { SIf(1, accept, reject) :
                       accept \in StatementLists(k),
                       reject \in StatementLists(n - 1 - k) } :
                   k \in 0..(n - 1) }
      \cup UNION { { SLoop(body, continuing) :
                       body \in StatementLists(k),
                       continuing \in StatementLists(n - 1 - k) } :
                   k \in 0..(n - 1) }
      \cup UNION { { SSwitch(6, cases, default) :
                       cases \in CaseLists(k),
                       default \in StatementLists(n - 1 - k) } :
                   k \in 0..(n - 1) }

\* the statement lists of n nodes at most
StatementLists(n) ==
    IF n = 0 THEN {<<>>}
    ELSE {<<>>} \cup
         UNION { { <<statement>> \o rest :
                     statement \in Statements(k),
                     rest \in StatementLists(n - k) } : k \in 1..n }

\* bodies picked by hand, longer or deeper than MaxNodes allows
Nested ==
    { <<SEmit(3, 4), SCall(1, <<3>>, 5), SEmit(5, 5)>>,
      << SSwitch(6, << SwitchCase(1, <<SEmit(3, 4)>>, TRUE),
                       SwitchCase(2, <<>>, FALSE),
                       SwitchCase(3, <<>>, TRUE) >>,
                 <<SKill>>),
         SReturn(0) >>,
      <<SSwitch(6, <<SwitchCase(7, <<>>, TRUE)>>, <<>>), SEmit(3, 4)>>,
      <<SEmit(3, 4), SCall(1, <<3>>, 0)>>,
      <<SLoop(<<SIf(1, <<SBreak>>, <<SContinue>>)>>, <<>>)>>,
      <<SLoop(<<SBlock(<<SContinue>>)>>, <<SEmit(3, 3)>>), SEmit(4, 4)>>,
      <<SLoop(<<SLoop(<<SBreak>>, <<>>), SBreak>>, <<>>)>>,
      <<SLoop(<<SSwitch(6, <<SwitchCase(1, <<SBreak>>, FALSE)>>, <<>>)>>,
              <<>>)>>,
      <<SLoop(<<SSwitch(6, <<>>, <<SContinue>>)>>, <<>>)>>,
      <<SIf(1, <<SReturn(0)>>, <<SEmit(3, 4)>>)>> }

Generated(body) ==
    IrFunction(<<>>, 0, <<LocalVariable(1, 0)>>,
               << EConstant(3, H(15)),
                  ELocalVariable(1, LocalPointer(1, "Function")),
                  ELoad(2, H(1)),
                  EBinary("Add", 3, 3, H(1)),
                  ECall(1, H(1)),
                  EConstant(2, H(4)) >>,
               body, {})

\* the module before its entry point is known
BlockModule == Module(Constants, Globals, <<Callee, Looping>>, <<>>)

BlockInit ==
    /\ writer = NewWriter(DefaultOptions)
    /\ ir = BlockModule
    /\ pc = "start"
    /\ cursor = 0
    /\ result = NoOutcome
    /\ words = <<>>
    /\ func = <<>>
    /\ trace = <<>>

\* the loop over the entry points, on a module whose one entry point has
\* a generated body
WriteGenerated ==
    /\ pc = "finish"
    /\ ir.entry_points = <<>>
    /\ \E body \in StatementLists(MaxNodes) \cup Nested :
          /\ ir' = [ir EXCEPT !.entry_points =
                       <<EntryPoint("Vertex", "main", Generated(body),
                                    <<>>)>>]
          /\ BlockStep(Then(write_entry_point(
                              writer,
                              EntryPoint("Vertex", "main", Generated(body),
                                         <<>>)),
                            LAMBDA e :
                              FR([e.w EXCEPT !.entry_points =
                                    Append(@, e.ins)],
                                 e.fn, Block_new(0), e.id)))

BlockNext ==
    \/ WriteBegin
    \/ WriteConstant
    \/ WriteGlobal
    \/ WriteFunction
    \/ WriteGenerated
    \/ WriteFinish

SpecBlock == BlockInit /\ [][BlockNext]_vars

(***************************************************************************)
(* Properties of the id allocator and of the type cache (SpecTypes).       *)
(***************************************************************************)
GoodCall(i, op) == trace[i].op = op /\ trace[i].st = "ok"

DeclarationsOf(id) ==
    {n \in DOMAIN writer.declarations : writer.declarations[n].result = id}

\* C1: a fresh Writer has id_count 2; the k-th call of generate_id returns
\* 2 + k and leaves id_count at that value, so generate_id never returns
\* 1, 2 or a value it returned before
C1_GenerateIdSequential ==
    /\ writer.id_count = 2 + Len(writer.issued)
    /\ \A k \in DOMAIN writer.issued :
          /\ writer.issued[k] = 2 + k
          /\ writer.issued[k] \notin {1, 2}
          /\ \A j \in DOMAIN writer.issued :
                j # k => writer.issued[j] # writer.issued[k]
    /\ \A i \in DOMAIN trace :
          trace[i].op = "generate_id" =>
             /\ trace[i].id = trace[i].id_before + 1
             /\ trace[i].id_after = trace[i].id

C1_Witness ==
    /\ pc = "types"
    /\ Len(writer.issued) >= 3
    /\ \E i \in DOMAIN trace : trace[i].op = "generate_id"
    /\ \E i \in DOMAIN trace : GoodCall(i, "get_type_id")

TypeOps ==
    {"OpTypeInt", "OpTypeFloat", "OpTypeBool", "OpTypeVector",
     "OpTypeMatrix", "OpTypePointer", "OpTypeSampledImage", "OpTypeImage",
     "OpTypeSampler", "OpTypeRuntimeArray", "OpTypeArray"}

SameType(a, b) ==
    /\ a.op = b.op
    /\ a.ids = b.ids
    /\ a.lits = b.lits
    /\ a.syms = b.syms

\* C4: two declarations of the same non-struct SPIR-V type (same opcode,
\* same operands) never carry different ids: each distinct non-struct type
\* is declared once
C4_DistinctTypesDeclaredOnce ==
    \A i, j \in DOMAIN writer.declarations :
       ( /\ writer.declarations[i].op \in TypeOps
         /\ SameType(writer.declarations[i], writer.declarations[j]) )
       => writer.declarations[i].result = writer.declarations[j].result

SameLocal(h1, h2) ==
    /\ from_inner(Types[h1]).tag # "NoLocal"
    /\ from_inner(Types[h1]) = from_inner(Types[h2])

\* C5: handles with the same LocalType canonicalisation are answered with
\* the same id, every canonical key of the cache has exactly one
\* declaration, and a repeated lookup of an answered key allocates no id
\* and appends no declaration
C5_TypesInterned ==
    /\ \A i, j \in DOMAIN trace :
          ( /\ GoodCall(i, "get_type_id") /\ GoodCall(j, "get_type_id")
            /\ trace[i].key.tag = "Handle" /\ trace[j].key.tag = "Handle"
            /\ SameLocal(trace[i].key.h, trace[j].key.h) )
          => trace[i].id = trace[j].id
    /\ \A i, j \in DOMAIN trace :
          ( /\ i < j
            /\ GoodCall(i, "get_type_id") /\ GoodCall(j, "get_type_id")
            /\ trace[i].key = trace[j].key )
          => /\ trace[j].id = trace[i].id
             /\ trace[j].id_after = trace[j].id_before
             /\ trace[j].decl_after = trace[j].decl_before
    /\ \A k \in DOMAIN writer.lookup_type :
          k.tag # "Handle" =>
             Cardinality(DeclarationsOf(writer.lookup_type[k])) = 1

C5_Witness ==
    \E i, j, k \in DOMAIN trace :
       /\ i < j /\ j < k
       /\ GoodCall(i, "get_type_id") /\ GoodCall(j, "get_type_id")
       /\ GoodCall(k, "get_type_id")
       /\ trace[i].key = LookupHandle(1)
       /\ trace[j].key = LookupHandle(2)
       /\ trace[k].key = LookupHandle(1)
       /\ trace[i].id = trace[j].id

IsStruct(key) == key.tag = "Handle" /\ Types[key.h].tag = "Struct"

\* C6: every struct handle answered by get_type_id has exactly one
\* OpTypeStruct declaration, however often it was requested, and distinct
\* struct handles have distinct ids
C6_StructsNominal ==
    /\ \A i \in DOMAIN trace :
          (GoodCall(i, "get_type_id") /\ IsStruct(trace[i].key)) =>
             /\ trace[i].key \in DOMAIN writer.lookup_type
             /\ writer.lookup_type[trace[i].key] = trace[i].id
             /\ \E n \in DOMAIN writer.declarations :
                   /\ DeclarationsOf(trace[i].id) = {n}
                   /\ writer.declarations[n].op = "OpTypeStruct"
    /\ Cardinality({n \in DOMAIN writer.declarations :
                       writer.declarations[n].op = "OpTypeStruct"})
          = Cardinality({k \in DOMAIN writer.lookup_type : IsStruct(k)})
    /\ \A i, j \in DOMAIN trace :
          ( /\ GoodCall(i, "get_type_id") /\ GoodCall(j, "get_type_id")
            /\ IsStruct(trace[i].key) /\ IsStruct(trace[j].key)
            /\ trace[i].key # trace[j].key )
          => trace[i].id # trace[j].id

C6_Witness ==
    \E i, j, k \in DOMAIN trace :
       /\ i < j /\ j < k
       /\ GoodCall(i, "get_type_id") /\ trace[i].key = LookupHandle(7)
       /\ GoodCall(j, "get_type_id") /\ trace[j].key = LookupHandle(7)
       /\ GoodCall(k, "get_type_id") /\ trace[k].key = LookupHandle(8)
       /\ trace[k].id # trace[i].id


(***************************************************************************)
(* Properties of Writer::write (Spec).                                     *)
(***************************************************************************)
\* the ids the Writer has handed out or reserved: void_type and
\* gl450_ext_inst_id of Writer::new, and every answer of generate_id
AllocatedIds(w) == {w.void_type, w.gl450_ext_inst_id} \cup Range(w.issued)

\* C2: write_physical_layout sets bound to id_count + 1, which is 3 on a
\* Writer that has written nothing; when write returns Ok, the fourth word
\* of the output, the bound of the header, is the final id_count + 1 and
\* is greater than every id the Writer allocated or reserved.
C2_BoundIsIdCountPlusOne ==
    /\ pc = "tested" =>
          /\ writer.bound = writer.id_count + 1
          /\ writer.bound = 3
    /\ pc = "done" =>
          /\ result.st = "ok"
          /\ writer.bound = writer.id_count + 1
          /\ words[1] = MAGIC_NUMBER
          /\ words[4] = writer.id_count + 1
          /\ \A id \in AllocatedIds(writer) : id < words[4]

\* a write that returned Ok after lowering two functions or more
C2_Witness ==
    /\ pc = "done"
    /\ result.st = "ok"
    /\ Len(func) >= 2
    /\ words[4] = writer.id_count + 1
    /\ Cardinality(AllocatedIds(writer)) > 10


\* the instructions of the output, after the five words of the header
OutputInstructions == SubSeq(words, 6, Len(words))

\* the ids an instruction uses: its result type and its id operands
Operands(instruction) ==
    Range(instruction.ids)
      \cup (IF instruction.type = 0 THEN {} ELSE {instruction.type})

\* the places of the output whose instruction has result id id
Definitions(id) ==
    {i \in DOMAIN OutputInstructions : OutputInstructions[i].result = id}

IsLabel(id) ==
    \E i \in Definitions(id) : OutputInstructions[i].op = "OpLabel"

\* the instructions of the sections written before the declarations that
\* name an id: a function, a variable, a type
NamingOps ==
    {"OpEntryPoint", "OpExecutionMode", "OpName", "OpMemberName",
     "OpDecorate", "OpMemberDecorate"}

\* C3, as stated: in the output of a successful write every operand id is
\* the result id of exactly one instruction, and that instruction comes
\* before every instruction that uses the id.
C3_DefinitionsPrecedeUses ==
    pc = "done" =>
       \A j \in DOMAIN OutputInstructions :
          \A id \in Operands(OutputInstructions[j]) :
             /\ Cardinality(Definitions(id)) = 1
             /\ \A i \in Definitions(id) : i < j

\* C3, amended: in the output of a successful write every operand id is
\* the result id of exactly one instruction; that instruction comes before
\* the use unless the id is the label of a block, or the use is in an
\* OpEntryPoint, OpExecutionMode, OpName or decoration instruction, which
\* name ids of later sections.
C3_OperandsDefinedOnce ==
    pc = "done" =>
       \A j \in DOMAIN OutputInstructions :
          \A id \in Operands(OutputInstructions[j]) :
             /\ Cardinality(Definitions(id)) = 1
             /\ (OutputInstructions[j].op \notin NamingOps /\ ~IsLabel(id))
                   => \A i \in Definitions(id) : i < j

\* an output with an entry point, a call of a function with a parameter,
\* a conditional branch to a later block, and a decoration
C3_Witness ==
    /\ pc = "done"
    /\ \E j \in DOMAIN OutputInstructions :
          /\ OutputInstructions[j].op = "OpEntryPoint"
          /\ \A i \in Definitions(OutputInstructions[j].ids[1]) : j < i
    /\ \E j \in DOMAIN OutputInstructions :
          /\ OutputInstructions[j].op = "OpBranchConditional"
          /\ \A i \in Definitions(OutputInstructions[j].ids[2]) : j < i
    /\ \E j \in DOMAIN OutputInstructions :
          OutputInstructions[j].op = "OpFunctionCall"
    /\ \E j \in DOMAIN OutputInstructions :
          OutputInstructions[j].op = "OpFunctionParameter"
    /\ \E j \in DOMAIN OutputInstructions :
          OutputInstructions[j].op = "OpDecorate"


(***************************************************************************)
(* Properties of write_block and of the expression cache (SpecBlock).      *)
(***************************************************************************)
MergeOps == {"OpSelectionMerge", "OpLoopMerge"}

TerminatorOps ==
    {"OpBranch", "OpBranchConditional", "OpSwitch", "OpReturn",
     "OpReturnValue", "OpKill"}

\* the blocks of the functions lowered so far
LoweredBlocks ==
    UNION {Range(func[f].blocks) : f \in DOMAIN func}

\* C7: in every lowered function an OpSelectionMerge or OpLoopMerge is the
\* last instruction of its block's body, so that nothing stands between it
\* and the terminator, and the terminator is OpBranchConditional or
\* OpSwitch after an OpSelectionMerge and OpBranch after an OpLoopMerge.
C7_MergeBeforeTerminator ==
    \A block \in LoweredBlocks :
       \A k \in DOMAIN block.body :
          block.body[k].op \in MergeOps =>
             /\ k = Len(block.body)
             /\ block.body[k].op = "OpSelectionMerge" =>
                   block.termination.op \in {"OpBranchConditional",
                                             "OpSwitch"}
             /\ block.body[k].op = "OpLoopMerge" =>
                   block.termination.op = "OpBranch"

\* lowered blocks with a selection merge after other instructions before
\* a conditional branch, with a selection merge before a switch, and
\* with a loop merge before a branch
C7_Witness ==
    /\ \E block \in LoweredBlocks :
          /\ Len(block.body) >= 2
          /\ block.body[Len(block.body)].op = "OpSelectionMerge"
          /\ block.termination.op = "OpBranchConditional"
    /\ \E block \in LoweredBlocks :
          /\ block.body # <<>>
          /\ block.body[Len(block.body)].op = "OpSelectionMerge"
          /\ block.termination.op = "OpSwitch"
    /\ \E block \in LoweredBlocks :
          /\ block.body # <<>>
          /\ block.body[Len(block.body)].op = "OpLoopMerge"
          /\ block.termination.op = "OpBranch"

Terminating == {"Break", "Continue", "Return", "Kill"}

\* a statement list of the tree has a statement after a Break, Continue,
\* Return or Kill
RECURSIVE DeadCodeIn(_)
DeadCodeIn(statements) ==
    \/ \E i \in DOMAIN statements :
          i < Len(statements) /\ statements[i].tag \in Terminating
    \/ \E i \in DOMAIN statements :
          \/ DeadCodeIn(statements[i].body)
          \/ DeadCodeIn(statements[i].other)
          \/ \E c \in DOMAIN statements[i].cases :
                DeadCodeIn(statements[i].cases[c].body)

\* the body of the entry point, once it has been handed to the Writer
GeneratedBody == ir.entry_points[1].function.body

\* C8: every block of a lowered function has one terminator and no
\* terminator inside its body, Function::to_words never meets a block
\* without a termination, and a body with a statement after a Break,
\* Continue, Return or Kill in the same list aborts the lowering.
C8_OneTerminatorPerBlock ==
    /\ \A block \in LoweredBlocks :
          /\ block.termination.op \in TerminatorOps
          /\ \A k \in DOMAIN block.body :
                block.body[k].op \notin TerminatorOps
    /\ result.err.kind # "termination is None"
    /\ (ir.entry_points # <<>> /\ DeadCodeIn(GeneratedBody)) =>
          /\ pc = "aborted"
          /\ result.st = "panic"

\* a body with a statement after a Return was handed to the Writer, which
\* aborted on it, after functions whose blocks all have a terminator
C8_Witness ==
    /\ ir.entry_points # <<>>
    /\ Len(GeneratedBody) = 2
    /\ GeneratedBody[1].tag = "Return"
    /\ DeadCodeIn(GeneratedBody)
    /\ result.err.kind =
          "No statements are expected after block termination"
    /\ pc = "aborted"
    /\ Cardinality(LoweredBlocks) > 2

\* the events of the cache after the last reset before event j
SinceReset(log, j) ==
    {i \in 1..(j - 1) :
        \A k \in i..(j - 1) : log[k].op # "reset"}

\* C9: between two resets of the expression cache a slot that holds a
\* non-zero id keeps it: a write aborts exactly when the slot is not
\* zero, a read aborts exactly when the slot is zero, every access finds
\* in the slot the last id written there since the reset, and no
\* instruction of a lowered function has the operand id 0.
C9_CacheWriteOnce ==
    /\ \A j \in DOMAIN writer.cache_log :
          LET event == writer.cache_log[j] IN
          /\ event.op = "write" => (event.aborted <=> event.old # 0)
          /\ event.op = "read" => (event.aborted <=> event.old = 0)
          /\ \A i \in SinceReset(writer.cache_log, j) :
                (/\ writer.cache_log[i].op = "write"
                 /\ writer.cache_log[i].h = event.h
                 /\ writer.cache_log[i].new # 0
                 /\ ~writer.cache_log[i].aborted)
                   => event.old = writer.cache_log[i].new
    /\ \A block \in LoweredBlocks :
          /\ \A k \in DOMAIN block.body : 0 \notin Range(block.body[k].ids)
          /\ 0 \notin Range(block.termination.ids)

\* a slot was written, read as an operand, and written again, which
\* aborted
C9_Witness ==
    \E i, j, k \in DOMAIN writer.cache_log :
       /\ i < j /\ j < k
       /\ k \in DOMAIN writer.cache_log
       /\ i \in SinceReset(writer.cache_log, k)
       /\ writer.cache_log[i].op = "write"
       /\ ~writer.cache_log[i].aborted
       /\ writer.cache_log[j].op = "read"
       /\ ~writer.cache_log[j].aborted
       /\ writer.cache_log[k].op = "write"
       /\ writer.cache_log[k].aborted
       /\ writer.cache_log[i].h = writer.cache_log[j].h
       /\ writer.cache_log[i].h = writer.cache_log[k].h

(***************************************************************************)
(* Properties of write_function (Spec).                                    *)
(***************************************************************************)
\* C10: at the entry of every function and entry point, once
\* write_function has reset the handle ids and the expression cache, every
\* slot of the cache is zero, every global's handle_id is zero,
\* lookup_function_call is empty and temp_chain is empty.
C10_TransientStateReset ==
    \A e \in DOMAIN writer.entered :
       writer.entered[e].complete =>
          /\ \A h \in DOMAIN writer.entered[e].cached :
                writer.entered[e].cached[h] = 0
          /\ \A g \in DOMAIN writer.entered[e].handle_ids :
                writer.entered[e].handle_ids[g] = 0
          /\ writer.entered[e].lookup_function_call = EmptyMap
          /\ writer.entered[e].temp_chain = <<>>


(***************************************************************************)
(* Properties of the layout of a function (Spec).                          *)
(***************************************************************************)
\* the places of the output that hold an OpFunction
FunctionStarts ==
    {j \in DOMAIN OutputInstructions : OutputInstructions[j].op = "OpFunction"}

\* place j of the output belongs to the function that starts at f
InFunction(f, j) ==
    /\ j > f
    /\ \A g \in FunctionStarts : g <= f \/ g > j

\* the places of the labels written for the function that starts at f
LabelsOf(f) ==
    {j \in DOMAIN OutputInstructions :
        InFunction(f, j) /\ OutputInstructions[j].op = "OpLabel"}

\* the place of the first label of the function that starts at f
FirstLabel(f) == CHOOSE j \in LabelsOf(f) : \A k \in LabelsOf(f) : j <= k

\* C11: in every function of the output the first block is the prelude,
\* which ends with an OpBranch to the block written next, the main block;
\* each local variable of the function has its OpVariable in that first
\* block, right after the label, and no OpVariable stands anywhere else
\* in a function.
C11_VariablesInPrelude ==
    pc = "done" =>
       /\ \A f \in DOMAIN func :
             /\ Len(func[f].blocks) >= 2
             /\ func[f].blocks[1].termination
                   = Branch(func[f].blocks[2].label_id)
       /\ Cardinality(FunctionStarts) = Len(func)
       /\ \A f \in FunctionStarts :
             /\ LabelsOf(f) # {}
             /\ \A j \in DOMAIN OutputInstructions :
                   (InFunction(f, j)
                      /\ OutputInstructions[j].op = "OpVariable") =>
                      /\ FirstLabel(f) < j
                      /\ \A k \in (FirstLabel(f) + 1)..j :
                            OutputInstructions[k].op = "OpVariable"
       /\ \A f \in DOMAIN func :
             \A v \in DOMAIN func[f].variables :
                \E j \in DOMAIN OutputInstructions :
                   /\ OutputInstructions[j] = func[f].variables[v].instruction
                   /\ \E g \in FunctionStarts :
                         /\ OutputInstructions[g] = func[f].signature
                         /\ \A k \in (FirstLabel(g) + 1)..j :
                               OutputInstructions[k].op = "OpVariable"
                         /\ FirstLabel(g) < j

\* an output with two functions that have a local variable each, after a
\* function that has none, and with global variables in the declarations
C11_Witness ==
    /\ pc = "done"
    /\ Cardinality({f \in DOMAIN func : DOMAIN func[f].variables # {}}) >= 2
    /\ \E f \in DOMAIN func : DOMAIN func[f].variables = {}
    /\ \E f \in DOMAIN func : Len(func[f].blocks) > 2
    /\ \E j \in DOMAIN OutputInstructions :
          /\ OutputInstructions[j].op = "OpVariable"
          /\ \A f \in FunctionStarts : j < f

(***************************************************************************)
(* Properties of the outcome of write (Spec)                               *)
(***************************************************************************)

ErrorKinds == {"MissingCapabilities", "FeatureNotImplemented", "Resolve"}

\* C12: when write returns an error (MissingCapabilities,
\* FeatureNotImplemented or Resolve) the output word vector is what it was
\* before the call; words are appended to it only by a write that built the
\* whole logical layout without error.
C12_ErrorLeavesWordsAlone ==
    /\ pc = "failed" =>
          /\ result.st = "err"
          /\ result.err.kind \in ErrorKinds
          /\ words = <<>>
    /\ words # <<>> => pc = "done" /\ result.st = "ok"

\* a write that fails after it lowered a function and declared types
C12_Witness ==
    /\ pc = "failed"
    /\ result.err.kind = "FeatureNotImplemented"
    /\ Len(func) >= 1
    /\ writer.id_count > 2
    /\ words = <<>>

(***************************************************************************)
(* Properties of Writer::new (SpecNew)                                     *)
(***************************************************************************)

\* C13: Writer::new succeeds for every options value whose lang_version
\* major is 1, whatever the minor, and answers UnsupportedVersion(major,
\* minor) with the pair given for every other major, in which case no
\* Writer exists.
C13_NewChecksMajorOnly ==
    pc \in {"constructed", "rejected"} =>
        IF ir.lang_version[1] = 1
        THEN /\ pc = "constructed"
             /\ result.st = "ok"
             /\ writer # NoWriter
             /\ writer.version = ir.lang_version
             /\ writer.id_count = 2
        ELSE /\ pc = "rejected"
             /\ result.st = "err"
             /\ result.err.kind = "UnsupportedVersion"
             /\ result.version = ir.lang_version
             /\ writer = NoWriter

\* a Writer of version 1.255 was constructed
C13_Witness ==
    /\ pc = "constructed"
    /\ ir.lang_version = <<1, 255>>
    /\ writer.version = <<1, 255>>

(***************************************************************************)
(* The output for a module without items (Spec)                            *)
(***************************************************************************)

EmptyModule ==
    /\ ir.constants = <<>>
    /\ ir.global_variables = <<>>
    /\ ir.functions = <<>>
    /\ ir.entry_points = <<>>

ImportWords ==
    Ins("OpExtInstImport", 1, 0, <<>>, <<>>, <<"GLSL.std.450">>)

MemoryModelWords ==
    Ins("OpMemoryModel", 0, 0, <<>>, <<>>, <<"Logical", "GLSL450">>)

VoidWords == Ins("OpTypeVoid", 2, 0, <<>>, <<>>, <<>>)

SourceWords == Ins("OpSource", 0, 0, <<>>, <<450>>, <<"GLSL">>)

\* the instructions of the output before the first that is no OpCapability
CapabilityWords ==
    {j \in DOMAIN OutputInstructions :
        \A k \in 1..j : OutputInstructions[k].op = "OpCapability"}

\* C14 as stated: for a module with no constants, globals, functions or
\* entry points write succeeds with bound 3 and the output after the header
\* is the import of GLSL.std.450 (id 1), OpMemoryModel Logical GLSL450 and
\* OpTypeVoid for id 2, and no other instruction.
C14_EmptyModuleThreeInstructions ==
    (EmptyModule /\ pc \in {"done", "failed"}) =>
        /\ pc = "done"
        /\ words[4] = 3
        /\ OutputInstructions = <<ImportWords, MemoryModelWords, VoidWords>>

\* C14: for a module with no constants, globals, functions or entry points
\* and options that declare the Shader capability, write succeeds with
\* bound 3 and the output after the header is one OpCapability for each
\* capability of the options, the import of GLSL.std.450 (id 1),
\* OpMemoryModel Logical GLSL450, OpSource GLSL 450 when the debug flag is
\* set, and OpTypeVoid for id 2, and no other instruction; without Shader
\* write fails with MissingCapabilities and no output.
C14_EmptyModuleOutput ==
    (EmptyModule /\ pc \in {"done", "failed"}) =>
        IF "Shader" \in writer.capabilities
        THEN /\ pc = "done"
             /\ result.st = "ok"
             /\ words[4] = 3
             /\ Cardinality(CapabilityWords) = Cardinality(writer.capabilities)
             /\ {OutputInstructions[j].syms : j \in CapabilityWords}
                   = {<<c>> : c \in writer.capabilities}
             /\ SubSeq(OutputInstructions, Cardinality(CapabilityWords) + 1,
                       Len(OutputInstructions))
                   = <<ImportWords, MemoryModelWords>>
                        \o (IF writer.debug THEN <<SourceWords>> ELSE <<>>)
                        \o <<VoidWords>>
        ELSE /\ pc = "failed"
             /\ result.err = [kind |-> "MissingCapabilities",
                              caps |-> <<"Shader">>]
             /\ words = <<>>

\* the output of a module without items under options with two capabilities
C14_Witness ==
    /\ EmptyModule
    /\ pc = "done"
    /\ Cardinality(writer.capabilities) = 2
    /\ Len(OutputInstructions) = 5
    /\ words[4] = 3

(***************************************************************************)
(* Two Writers on the same input (SpecTwice)                               *)
(***************************************************************************)

RECURSIVE CaseBodies(_)
\* the bodies of the cases, one after the other
CaseBodies(cases) ==
    IF cases = <<>> THEN <<>>
    ELSE Head(cases).body \o CaseBodies(Tail(cases))

RECURSIVE JumpsIn(_, _)
\* how many statements of the tag the list holds, those inside nested
\* Block, If and Switch bodies included, those inside a nested Loop not
JumpsIn(statements, tag) ==
    IF statements = <<>> THEN 0
    ELSE LET s == Head(statements)
         IN  (IF s.tag = tag THEN 1 ELSE 0)
             + (IF s.tag = "Loop" THEN 0
                ELSE JumpsIn(s.body, tag) + JumpsIn(CaseBodies(s.cases), tag)
                     + JumpsIn(s.other, tag))
             + JumpsIn(Tail(statements), tag)

RECURSIVE LoopsOf(_)
\* the Loop statements of the tree, in the order the lowering meets them
LoopsOf(statements) ==
    IF statements = <<>> THEN <<>>
    ELSE LET s == Head(statements)
         IN  (IF s.tag = "Loop" THEN <<s>> ELSE <<>>)
             \o LoopsOf(s.body) \o LoopsOf(CaseBodies(s.cases))
             \o LoopsOf(s.other) \o LoopsOf(Tail(statements))

\* every Break and Continue of the body is inside the body of a loop, and
\* there is one
JumpsInLoopBodies(statements) ==
    /\ \A tag \in {"Break", "Continue"} :
          /\ JumpsIn(statements, tag) = 0
          /\ \A k \in DOMAIN LoopsOf(statements) :
                JumpsIn(LoopsOf(statements)[k].other, tag) = 0
    /\ \E k \in DOMAIN LoopsOf(statements), tag \in {"Break", "Continue"} :
          JumpsIn(LoopsOf(statements)[k].body, tag) > 0

\* the function lowered from the generated body
GeneratedFunction == func[Len(func)]

\* the preamble blocks of the function, in the order of its blocks
Preambles(function) ==
    SelectSeq(function.blocks,
              LAMBDA b : \E k \in DOMAIN b.body : b.body[k].op = "OpLoopMerge")

\* how many blocks of the function end with OpBranch to the label
BranchesTo(function, label) ==
    Cardinality({i \in DOMAIN function.blocks :
                   function.blocks[i].termination = Branch(label)})

\* the body runs into its exit when its last statement does not terminate
FallsThrough(statements) ==
    statements = <<>> \/ statements[Len(statements)].tag \notin Terminating

\* the blocks that branch to the labels of the k-th loop are those of the
\* Breaks and Continues of its body, and the end of the body
LoopJumpsMatch(function, loops, k) ==
    LET merge == Preambles(function)[k].body[1].ids
    IN  /\ BranchesTo(function, merge[1]) = JumpsIn(loops[k].body, "Break")
        /\ BranchesTo(function, merge[2])
              = JumpsIn(loops[k].body, "Continue")
                + (IF FallsThrough(loops[k].body) THEN 1 ELSE 0)

\* C16: a Break (Continue) anywhere inside a loop body, inside nested
\* Block, If and Switch case or default bodies too, ends its block with
\* OpBranch to the merge (continuing) label of the innermost enclosing
\* loop: the lowering does not abort for want of a loop context, and the
\* blocks that branch to the labels of a loop are as many as its jumps.
C16_JumpsLeaveInnermostLoop ==
    ( /\ ir.entry_points # <<>>
      /\ JumpsInLoopBodies(GeneratedBody)
      /\ ~DeadCodeIn(GeneratedBody) ) =>
        /\ result.err.kind # "unwrap on None"
        /\ pc \in {"finish", "done"} =>
              /\ Len(Preambles(GeneratedFunction))
                    = Len(LoopsOf(GeneratedBody))
              /\ \A k \in DOMAIN LoopsOf(GeneratedBody) :
                    LoopJumpsMatch(GeneratedFunction, LoopsOf(GeneratedBody),
                                   k)

(***************************************************************************)
(* The Call statement and its result expression (SpecBlock)                *)
(***************************************************************************)

\* the body is Emit of the argument, a Call, and, if there is a third
\* statement, the Emit of the Call's result expression
CallThenEmit(statements) ==
    /\ Len(statements) \in {2, 3}
    /\ statements[1] = SEmit(3, 4)
    /\ statements[2].tag = "Call"
    /\ Len(statements) = 3 =>
          /\ statements[2].e1 # 0
          /\ statements[3] = SEmit(statements[2].e1, statements[2].e1)

\* the OpFunctionCall instructions of the function
FunctionCalls(function) ==
    UNION { {b.body[k] : k \in {j \in DOMAIN b.body :
                                  b.body[j].op = "OpFunctionCall"}} :
            b \in Range(function.blocks) }

\* the id of the type a Call statement gives its OpFunctionCall
CallTypeId(statement) ==
    IF statement.e1 = 0 THEN writer.void_type
    ELSE get_type_id(writer,
                     LookupHandle(ir.functions[statement.fn].return_type)).id

\* C17: a Call statement emits one OpFunctionCall with a fresh id, typed
\* with the callee's return type (the void type without a result), and
\* records the id for the result expression; an Emit of that Call
\* expression afterwards yields the same id, emits no second instruction
\* and does not abort.
C17_CallResultFromCache ==
    (ir.entry_points # <<>> /\ CallThenEmit(GeneratedBody)) =>
        /\ pc \in {"finish", "done"}
        /\ Cardinality(FunctionCalls(GeneratedFunction)) = 1
        /\ \A call \in FunctionCalls(GeneratedFunction) :
              /\ call.type = CallTypeId(GeneratedBody[2])
              /\ Cardinality({i \in DOMAIN writer.issued :
                                writer.issued[i] = call.result}) = 1
              /\ GeneratedBody[2].e1 # 0 =>
                    /\ writer.lookup_function_call[GeneratedBody[2].e1]
                          = call.result
                    /\ writer.cached[GeneratedBody[2].e1] = call.result

(***************************************************************************)
(* The decoration of block structs (Spec)                                  *)
(***************************************************************************)

\* the struct types with block = true that have been declared
DeclaredBlockStructs ==
    {h \in TypeHandles :
        /\ Types[h].tag = "Struct" /\ Types[h].block
        /\ LookupHandle(h) \in DOMAIN writer.lookup_type}

\* how many times the id carries the decoration
Decorations(id, decoration) ==
    Cardinality({i \in DOMAIN writer.annotations :
                   /\ writer.annotations[i].op = "OpDecorate"
                   /\ writer.annotations[i].ids = <<id>>
                   /\ writer.annotations[i].syms = <<decoration>>})

\* the globals of the module whose type is the struct
GlobalsOf(h) ==
    {g \in DOMAIN ir.global_variables : ir.global_variables[g].ty = h}

\* C18: a struct type with block = true is decorated by the global that
\* uses it: Block once for a Uniform global (access mask empty),
\* BufferBlock once for a Storage global (access mask not empty), neither
\* when no Uniform or Storage global refers to it, whatever requested the
\* declaration of the struct first.
C18_BlockStructDecoration ==
    pc \in {"finish", "done"} =>
        \A h \in DeclaredBlockStructs :
           LET id == writer.lookup_type[LookupHandle(h)]
               uniform == \A g \in GlobalsOf(h) :
                             /\ ir.global_variables[g].class = "Uniform"
                             /\ ir.global_variables[g].storage_access = {}
               storage == \A g \in GlobalsOf(h) :
                             /\ ir.global_variables[g].class = "Storage"
                             /\ ir.global_variables[g].storage_access # {}
           IN  /\ (GlobalsOf(h) # {} /\ uniform) =>
                     /\ Decorations(id, "Block") = 1
                     /\ Decorations(id, "BufferBlock") = 0
               /\ (GlobalsOf(h) # {} /\ storage) =>
                     /\ Decorations(id, "Block") = 0
                     /\ Decorations(id, "BufferBlock") = 1
               /\ (\A g \in GlobalsOf(h) :
                      ir.global_variables[g].class
                          \notin {"Uniform", "Storage"}) =>
                     /\ Decorations(id, "Block") = 0
                     /\ Decorations(id, "BufferBlock") = 0

(***************************************************************************)
(* The lowering of Loop (SpecBlock)                                        *)
(***************************************************************************)

\* the indexes of the preamble blocks of the function
PreambleIndexes(function) ==
    {j \in DOMAIN function.blocks :
        \E k \in DOMAIN function.blocks[j].body :
           function.blocks[j].body[k].op = "OpLoopMerge"}

\* the indexes of the blocks of the function that carry the label
BlocksOf(function, label) ==
    {i \in DOMAIN function.blocks : function.blocks[i].label_id = label}

IssuedOnce(id) ==
    Cardinality({i \in DOMAIN writer.issued : writer.issued[i] = id}) = 1

\* the blocks around the preamble at index j are those of the loop
LoopShape(function, loop, j) ==
    LET preamble_id == function.blocks[j].label_id
        merge_id == preamble_id + 1
        body_id == preamble_id + 2
        continuing_id == preamble_id + 3
    IN  /\ \A id \in preamble_id..continuing_id : IssuedOnce(id)
        /\ j > 1
        /\ function.blocks[j - 1].termination = Branch(preamble_id)
        /\ function.blocks[j].body
              = <<Ins("OpLoopMerge", 0, 0, <<merge_id, continuing_id>>,
                      <<>>, <<"NONE">>)>>
        /\ function.blocks[j].termination = Branch(body_id)
        /\ BlocksOf(function, body_id) = {j + 1}
        /\ \E c, m \in DOMAIN function.blocks :
              /\ j + 1 < c /\ c < m
              /\ BlocksOf(function, continuing_id) = {c}
              /\ BlocksOf(function, merge_id) = {m}
        /\ BranchesTo(function, continuing_id)
              = JumpsIn(loop.body, "Continue")
                + (IF FallsThrough(loop.body) THEN 1 ELSE 0)
        /\ BranchesTo(function, merge_id)
              = JumpsIn(loop.body, "Break") + JumpsIn(loop.other, "Break")
        /\ BranchesTo(function, preamble_id)
              = 1 + (IF FallsThrough(loop.other) THEN 1 ELSE 0)

\* the block labelled with the merge label of the i-th statement of the
\* body, a Loop: the merge label is the id after the preamble's
MergeBlockOf(function, statements, i) ==
    LET rank == Len(LoopsOf(SubSeq(statements, 1, i - 1))) + 1
        j == CHOOSE j \in PreambleIndexes(function) :
                Cardinality({p \in PreambleIndexes(function) : p <= j}) = rank
        m == CHOOSE m \in BlocksOf(function, function.blocks[j].label_id + 1) :
                TRUE
    IN  function.blocks[m]

\* what follows a Loop in the body is found in the merge block
FollowsInMerge(function, statements) ==
    \A i \in DOMAIN statements :
       (statements[i].tag = "Loop" /\ i < Len(statements)) =>
          LET merge == MergeBlockOf(function, statements, i)
              next == statements[i + 1]
          IN  /\ next = SEmit(3, 4) =>
                    /\ Len(merge.body) >= 2
                    /\ merge.body[1].op = "OpLoad"
              /\ next = SEmit(4, 4) =>
                    /\ Len(merge.body) >= 1
                    /\ merge.body[1].op = "OpFAdd"
              /\ next.tag \in {"Return", "Kill"} =>
                    /\ merge.body = <<>>
                    /\ merge.termination.op \in {"OpReturn", "OpKill"}

\* C19: lowering Loop{body, continuing} closes the current block with
\* OpBranch to a fresh preamble label; the preamble block holds only
\* OpLoopMerge merge continuing and ends with OpBranch body; the body exits
\* to the continuing label and its Continue and Break go to the continuing
\* and the merge label; continuing exits to the preamble label and its Break
\* goes to the merge label, while a Continue inside continuing aborts; the
\* statements that follow are assembled in the merge block.
C19_LoopLowering ==
    ir.entry_points # <<>> =>
        /\ pc \in {"finish", "done"} =>
              /\ Cardinality(PreambleIndexes(GeneratedFunction))
                    = Len(LoopsOf(GeneratedBody))
              /\ \A j \in PreambleIndexes(GeneratedFunction) :
                    LoopShape(GeneratedFunction,
                              LoopsOf(GeneratedBody)[
                                 Cardinality({p \in PreambleIndexes(
                                                       GeneratedFunction) :
                                                p <= j})],
                              j)
              /\ FollowsInMerge(GeneratedFunction, GeneratedBody)
        /\ (\E k \in DOMAIN LoopsOf(GeneratedBody) :
               JumpsIn(LoopsOf(GeneratedBody)[k].other, "Continue") > 0) =>
              /\ pc = "aborted"
              /\ result.st = "panic"

\* a loop with a Break in its body, one with a Continue inside a nested
\* Block and statements after it, a loop inside a loop, and a loop with a
\* Continue in its continuing part have been handed to the Writer
C19_Witness ==
    /\ ir.entry_points # <<>>
    /\ pc = "finish"
    /\ GeneratedBody
          = <<SLoop(<<SBlock(<<SContinue>>)>>, <<SEmit(3, 3)>>), SEmit(4, 4)>>
    /\ Cardinality(PreambleIndexes(GeneratedFunction)) = 1
    /\ MergeBlockOf(GeneratedFunction, GeneratedBody, 1).body # <<>>

(***************************************************************************)
(* The lowering of Switch (SpecBlock)                                      *)
(***************************************************************************)

RECURSIVE SwitchesOf(_)
\* the Switch statements of the tree, in the order the lowering meets them
SwitchesOf(statements) ==
    IF statements = <<>> THEN <<>>
    ELSE LET s == Head(statements)
         IN  (IF s.tag = "Switch" THEN <<s>> ELSE <<>>)
             \o SwitchesOf(s.body) \o SwitchesOf(CaseBodies(s.cases))
             \o SwitchesOf(s.other) \o SwitchesOf(Tail(statements))

\* the indexes of the blocks of the function that end with OpSwitch
SwitchIndexes(function) ==
    {j \in DOMAIN function.blocks :
        function.blocks[j].termination.op = "OpSwitch"}

\* the index of the one block of the function that carries the label
BlockIndex(function, label) ==
    CHOOSE i \in DOMAIN function.blocks : function.blocks[i].label_id = label

\* the exit the sentence gives case i of the cases
ExpectedFinish(cases, labels, i, default_id, merge_id) ==
    IF ~cases[i].fall_through THEN merge_id
    ELSE IF i < Len(cases) THEN labels[i + 1]
    ELSE default_id

\* the block at index j ends with the OpSwitch of the statement, and the
\* blocks after it are those of its cases and of its default
SwitchShape(function, switch, j) ==
    LET block == function.blocks[j]
        n == Len(switch.cases)
        merge_id == block.body[Len(block.body)].ids[1]
        default_id == block.termination.ids[2]
        labels == SubSeq(block.termination.ids, 3,
                         Len(block.termination.ids))
        \* the label of the block that follows the blocks of case i
        after == [i \in 1..n |-> IF i < n THEN labels[i + 1] ELSE default_id]
    IN  /\ block.body[Len(block.body)] = SelectionMerge(merge_id)
        /\ Len(labels) = n
        /\ block.termination.lits = [i \in 1..n |-> switch.cases[i].value]
        /\ \A id \in {merge_id, default_id} \cup Range(labels) :
              IssuedOnce(id) /\ Cardinality(BlocksOf(function, id)) = 1
        /\ \A i \in 1..n :
              /\ BlockIndex(function, labels[i]) > j
              /\ BlockIndex(function, labels[i])
                    < BlockIndex(function, after[i])
              /\ FallsThrough(switch.cases[i].body) =>
                    function.blocks[BlockIndex(function, after[i]) - 1]
                          .termination
                       = Branch(ExpectedFinish(switch.cases, labels, i,
                                               default_id, merge_id))
        /\ BlockIndex(function, IF n = 0 THEN default_id ELSE labels[1])
              = j + 1
        /\ BlockIndex(function, default_id) < BlockIndex(function, merge_id)
        /\ FallsThrough(switch.other) =>
              function.blocks[BlockIndex(function, merge_id) - 1].termination
                 = Branch(merge_id)

\* what follows a Switch in the body is found in its merge block
FollowsSwitch(function, statements) ==
    \A i \in DOMAIN statements :
       (statements[i].tag = "Switch" /\ i < Len(statements)) =>
          LET rank == Len(SwitchesOf(SubSeq(statements, 1, i - 1))) + 1
              j == CHOOSE j \in SwitchIndexes(function) :
                      Cardinality({p \in SwitchIndexes(function) : p <= j})
                         = rank
              merge_id == function.blocks[j].body[
                             Len(function.blocks[j].body)].ids[1]
              merge == function.blocks[BlockIndex(function, merge_id)]
              next == statements[i + 1]
          IN  /\ next = SEmit(3, 4) =>
                    /\ Len(merge.body) >= 2
                    /\ merge.body[1].op = "OpLoad"
              /\ next.tag \in {"Return", "Kill"} =>
                    /\ merge.body = <<>>
                    /\ merge.termination.op \in {"OpReturn", "OpKill"}

\* C20: the OpSwitch of a Switch lists one (value, label) pair per case in
\* case order and the default label; case i exits to the label of case
\* i + 1 when its fall_through is set and a next case exists, to the
\* default label when it is set on the last case, and to the merge label
\* otherwise; the default body exits to the merge label; the statements
\* that follow are assembled in the merge block.
C20_SwitchLowering ==
    (ir.entry_points # <<>> /\ pc \in {"finish", "done"}) =>
        /\ Cardinality(SwitchIndexes(GeneratedFunction))
              = Len(SwitchesOf(GeneratedBody))
        /\ \A j \in SwitchIndexes(GeneratedFunction) :
              SwitchShape(GeneratedFunction,
                          SwitchesOf(GeneratedBody)[
                             Cardinality({p \in SwitchIndexes(
                                                   GeneratedFunction) :
                                            p <= j})],
                          j)
        /\ FollowsSwitch(GeneratedFunction, GeneratedBody)

\* a Switch of three cases, the first falling through to the second, the
\* second leaving to the merge label and the last falling through to the
\* default, has been lowered, with a statement after it
C20_Witness ==
    /\ ir.entry_points # <<>>
    /\ pc = "finish"
    /\ Len(GeneratedBody) = 2
    /\ GeneratedBody[1].tag = "Switch"
    /\ Len(GeneratedBody[1].cases) = 3
    /\ GeneratedBody[1].cases[1].fall_through
    /\ ~GeneratedBody[1].cases[2].fall_through
    /\ GeneratedBody[1].cases[3].fall_through
    /\ \E j \in SwitchIndexes(GeneratedFunction) :
          Len(GeneratedFunction.blocks[j].termination.ids) = 5

(***************************************************************************)
(* The lowering of If (SpecBlock)                                          *)
(***************************************************************************)

RECURSIVE IfsOf(_)
\* the If statements of the tree, in the order the lowering meets them
IfsOf(statements) ==
    IF statements = <<>> THEN <<>>
    ELSE LET s == Head(statements)
         IN  (IF s.tag = "If" THEN <<s>> ELSE <<>>)
             \o IfsOf(s.body) \o IfsOf(CaseBodies(s.cases))
             \o IfsOf(s.other) \o IfsOf(Tail(statements))

\* the indexes of the blocks that end with OpBranchConditional
ConditionalIndexes(function) ==
    {j \in DOMAIN function.blocks :
        function.blocks[j].termination.op = "OpBranchConditional"}

\* the block at index j ends with the branch of the If, and the blocks
\* after it are those of its arms that are not empty
IfShape(function, if, j) ==
    LET block == function.blocks[j]
        merge_id == block.body[Len(block.body)].ids[1]
        accept_id == block.termination.ids[2]
        reject_id == block.termination.ids[3]
    IN  /\ block.body[Len(block.body)] = SelectionMerge(merge_id)
        /\ Len(block.termination.ids) = 3
        /\ IssuedOnce(merge_id)
        /\ Cardinality(BlocksOf(function, merge_id)) = 1
        /\ accept_id = IF if.body = <<>> THEN merge_id ELSE merge_id + 1
        /\ reject_id = IF if.other = <<>> THEN merge_id
                       ELSE IF if.body = <<>> THEN merge_id + 1
                       ELSE merge_id + 2
        /\ \A id \in {accept_id, reject_id} :
              IssuedOnce(id) /\ Cardinality(BlocksOf(function, id)) = 1
        \* the first block after the branch: accept, else reject, else merge
        /\ BlockIndex(function,
                      IF if.body # <<>> THEN accept_id ELSE reject_id) = j + 1
        /\ (if.body # <<>> /\ FallsThrough(if.body)) =>
              function.blocks[BlockIndex(function, reject_id) - 1].termination
                 = Branch(merge_id)
        /\ (if.other # <<>> /\ FallsThrough(if.other)) =>
              function.blocks[BlockIndex(function, merge_id) - 1].termination
                 = Branch(merge_id)
        /\ if.body # <<>> =>
              BlockIndex(function, accept_id) < BlockIndex(function, reject_id)
        /\ if.other # <<>> =>
              BlockIndex(function, reject_id) < BlockIndex(function, merge_id)

\* what follows an If in the body is found in its merge block
FollowsIf(function, statements) ==
    \A i \in DOMAIN statements :
       (statements[i].tag = "If" /\ i < Len(statements)) =>
          LET rank == Len(IfsOf(SubSeq(statements, 1, i - 1))) + 1
              j == CHOOSE j \in ConditionalIndexes(function) :
                      Cardinality({p \in ConditionalIndexes(function) :
                                     p <= j}) = rank
              merge_id == function.blocks[j].body[
                             Len(function.blocks[j].body)].ids[1]
              merge == function.blocks[BlockIndex(function, merge_id)]
              next == statements[i + 1]
          IN  /\ next = SEmit(3, 4) =>
                    /\ Len(merge.body) >= 2
                    /\ merge.body[1].op = "OpLoad"
              /\ next.tag \in {"Return", "Kill"} =>
                    /\ merge.body = <<>>
                    /\ merge.termination.op \in {"OpReturn", "OpKill"}

\* C21: lowering If{c, accept, reject} appends OpSelectionMerge merge to
\* the current block and closes it with OpBranchConditional c A R, where A
\* (R) is a fresh label when accept (reject) is not empty and the merge
\* label otherwise; each arm that is not empty is lowered with exit merge
\* and the loop context of the If, no block is emitted for an empty arm,
\* and the statements that follow are assembled in the merge block.
C21_IfLowering ==
    (ir.entry_points # <<>> /\ pc \in {"finish", "done"}) =>
        /\ Cardinality(ConditionalIndexes(GeneratedFunction))
              = Len(IfsOf(GeneratedBody))
        /\ \A j \in ConditionalIndexes(GeneratedFunction) :
              IfShape(GeneratedFunction,
                      IfsOf(GeneratedBody)[
                         Cardinality({p \in ConditionalIndexes(
                                               GeneratedFunction) :
                                        p <= j})],
                      j)
        /\ JumpsInLoopBodies(GeneratedBody) =>
              \A k \in DOMAIN LoopsOf(GeneratedBody) :
                 LoopJumpsMatch(GeneratedFunction, LoopsOf(GeneratedBody), k)
        /\ FollowsIf(GeneratedFunction, GeneratedBody)

\* an If with a Break in one arm and a Continue in the other has been
\* lowered inside a loop
C21_Witness ==
    /\ ir.entry_points # <<>>
    /\ pc = "finish"
    /\ GeneratedBody
          = <<SLoop(<<SIf(1, <<SBreak>>, <<SContinue>>)>>, <<>>)>>
    /\ \E j \in ConditionalIndexes(GeneratedFunction) :
          GeneratedFunction.blocks[j].termination.ids[2]
             # GeneratedFunction.blocks[j].termination.ids[3]

(***************************************************************************)
(* The end of a statement list (SpecBlock)                                 *)
(***************************************************************************)

RECURSIVE CountOf(_, _)
\* how many statements of the tag the tree holds, nested loops included
CountOf(statements, tag) ==
    IF statements = <<>> THEN 0
    ELSE LET s == Head(statements)
         IN  (IF s.tag = tag THEN 1 ELSE 0)
             + CountOf(s.body, tag) + CountOf(CaseBodies(s.cases), tag)
             + CountOf(s.other, tag) + CountOf(Tail(statements), tag)

\* how many blocks of the function end with the instruction
EndingWith(function, op) ==
    Cardinality({i \in DOMAIN function.blocks :
                   function.blocks[i].termination.op = op})

\* the last block of the function
LastBlock(function) == function.blocks[Len(function.blocks)]

\* the arms of the If at block j that run into their exit end with OpBranch
\* to the merge label of the If, and nothing else branches there
ArmsReachMerge(function, if, j) ==
    LET block == function.blocks[j]
        merge_id == block.body[Len(block.body)].ids[1]
    IN  BranchesTo(function, merge_id)
           = (IF if.body # <<>> /\ FallsThrough(if.body) THEN 1 ELSE 0)
             + (IF if.other # <<>> /\ FallsThrough(if.other) THEN 1 ELSE 0)

\* C22: when write_block reaches the end of its statement list with the
\* current block still open, it ends the block with OpBranch exit_id when
\* an exit was given and with OpReturn otherwise; a block that a Break,
\* Continue, Return or Kill has ended keeps that terminator; the last block
\* of the top-level body of a function, when open, ends with OpReturn.
C22_DefaultTermination ==
    (ir.entry_points # <<>> /\ pc \in {"finish", "done"}) =>
        /\ \A i \in DOMAIN GeneratedFunction.blocks :
              GeneratedFunction.blocks[i].termination # NoIns
        /\ FallsThrough(GeneratedBody) =>
              LastBlock(GeneratedFunction).termination
                 = Ins("OpReturn", 0, 0, <<>>, <<>>, <<>>)
        /\ ~FallsThrough(GeneratedBody) =>
              LastBlock(GeneratedFunction).termination.op
                 = (IF GeneratedBody[Len(GeneratedBody)].tag = "Kill"
                    THEN "OpKill" ELSE "OpReturn")
        /\ EndingWith(GeneratedFunction, "OpReturn")
              = CountOf(GeneratedBody, "Return")
                + (IF FallsThrough(GeneratedBody) THEN 1 ELSE 0)
        /\ EndingWith(GeneratedFunction, "OpKill")
              = CountOf(GeneratedBody, "Kill")
        /\ EndingWith(GeneratedFunction, "OpReturnValue") = 0
        /\ \A j \in ConditionalIndexes(GeneratedFunction) :
              ArmsReachMerge(GeneratedFunction,
                             IfsOf(GeneratedBody)[
                                Cardinality({p \in ConditionalIndexes(
                                                      GeneratedFunction) :
                                               p <= j})],
                             j)
        /\ \A k \in DOMAIN LoopsOf(GeneratedBody) :
              LET merge == Preambles(GeneratedFunction)[k].body[1].ids
                  loop == LoopsOf(GeneratedBody)[k]
              IN  /\ BranchesTo(GeneratedFunction, merge[2])
                        = JumpsIn(loop.body, "Continue")
                          + (IF FallsThrough(loop.body) THEN 1 ELSE 0)
                  /\ FallsThrough(loop.other) =>
                        \E i \in DOMAIN GeneratedFunction.blocks :
                           GeneratedFunction.blocks[i].termination
                              = Branch(merge[1] - 1)

\* a body whose If has an arm that ends with Return and an arm that runs
\* into the merge block has been lowered, and its last block is open
C22_Witness ==
    /\ ir.entry_points # <<>>
    /\ pc = "finish"
    /\ GeneratedBody = <<SIf(1, <<SReturn(0)>>, <<SEmit(3, 4)>>)>>
    /\ EndingWith(GeneratedFunction, "OpReturn") = 2
    /\ LastBlock(GeneratedFunction).body = <<>>

(***************************************************************************)
(* Pointers to variables and their components (Spec)                       *)
(***************************************************************************)

\* the function lowered last and the IR function it was lowered from
Lowered == func[Len(func)]

LoweredIr ==
    IF Len(func) <= Len(ir.functions) THEN ir.functions[Len(func)]
    ELSE ir.entry_points[Len(func) - Len(ir.functions)].function

\* the lowering of the last function has just ended well, or the module
\* is written
AfterLowering == func # <<>> /\ result.st = "ok"

RECURSIVE IndexPath(_, _)
\* the Access and AccessIndex expressions between the root and h, from
\* the root outwards
IndexPath(ir_function, h) ==
    IF ir_function.expressions[h].tag \in {"Access", "AccessIndex"}
    THEN Append(IndexPath(ir_function, ir_function.expressions[h].a), h)
    ELSE <<>>

RECURSIVE RootOf(_, _)
RootOf(ir_function, h) ==
    IF ir_function.expressions[h].tag \in {"Access", "AccessIndex"}
    THEN RootOf(ir_function, ir_function.expressions[h].a)
    ELSE h

\* the expressions of [first, last] that are loads, as their pointers
RECURSIVE LoadedPointers(_, _, _)
LoadedPointers(ir_function, first, last) ==
    IF first > last THEN <<>>
    ELSE (IF ir_function.expressions[first].tag = "Load"
          THEN <<ir_function.expressions[first].a>> ELSE <<>>)
         \o LoadedPointers(ir_function, first + 1, last)

\* the pointer expressions the statements of the list lower, in order
RECURSIVE PointerUses(_, _)
PointerUses(ir_function, statements) ==
    IF statements = <<>> THEN <<>>
    ELSE LET s == Head(statements)
         IN  (CASE s.tag = "Store" -> <<s.e1>>
                [] s.tag = "Emit" -> LoadedPointers(ir_function, s.e1, s.e2)
                [] OTHER -> <<>>)
             \o PointerUses(ir_function, Tail(statements))

\* the instructions of the bodies of the blocks from index i on
RECURSIVE BodiesFrom(_, _)
BodiesFrom(function, i) ==
    IF i > Len(function.blocks) THEN <<>>
    ELSE function.blocks[i].body \o BodiesFrom(function, i + 1)

\* the id and the class of the variable the root expression names
RootId(function, root) ==
    IF root.tag = "GlobalVariable" THEN writer.global_variables[root.a].id
    ELSE function.variables[root.a].id

RootClass(root) ==
    IF root.tag = "GlobalVariable" THEN writer.global_variables[root.a].class
    ELSE "Function"

\* id is the index operand that the access expression asks for: a 32-bit
\* signed constant of the index of an AccessIndex, the cached id of the
\* index expression of an Access
IsIndexOf(access, id) ==
    IF access.tag = "AccessIndex"
    THEN /\ IssuedOnce(id)
         /\ \E d \in DOMAIN writer.declarations :
               writer.declarations[d]
                  = Ins("OpConstant", id, writer.lookup_type[SintType], <<>>,
                        <<access.b>>, <<>>)
    ELSE id = writer.cached[access.b]

\* the k-th pointer use is lowered to the instruction that consumes it,
\* with one OpAccessChain before it if there is an index on the way
PointerLowered(function, ir_function, uses, chains, consumers, k) ==
    LET path == IndexPath(ir_function, uses[k])
        root == ir_function.expressions[RootOf(ir_function, uses[k])]
        rank == Len(SelectSeq(SubSeq(uses, 1, k),
                       LAMBDA h : IndexPath(ir_function, h) # <<>>))
        applied == write_expression_pointer(writer, function, Block_new(0),
                                            ir_function, uses[k])
    IN  /\ root.tag \in {"GlobalVariable", "LocalVariable"}
        /\ applied.st = "ok"
        /\ applied.class = RootClass(root)
        /\ path = <<>> =>
              /\ consumers[k].ids[1] = RootId(function, root)
              /\ applied.id = RootId(function, root)
              /\ applied.block.body = <<>>
        /\ path # <<>> =>
              /\ consumers[k].ids[1] = chains[rank].result
              /\ IssuedOnce(chains[rank].result)
              /\ chains[rank].type
                    = writer.lookup_type[ir_function.expressions[uses[k]].ty]
              /\ Len(chains[rank].ids) = 1 + Len(path)
              /\ chains[rank].ids[1] = RootId(function, root)
              /\ \A n \in DOMAIN path :
                    IsIndexOf(ir_function.expressions[path[n]],
                              chains[rank].ids[1 + n])
              /\ Len(applied.block.body) = 1
              /\ applied.block.body[1].op = "OpAccessChain"
              /\ applied.id = applied.block.body[1].result
              /\ applied.id \notin Range(writer.issued)

\* some function of the module lowers a pointer whose root is no variable
BadRootIn(module) ==
    \E f \in Range(module.functions)
          \cup {module.entry_points[e].function :
                  e \in DOMAIN module.entry_points} :
       \E k \in DOMAIN PointerUses(f, f.body) :
          f.expressions[RootOf(f, PointerUses(f, f.body)[k])].tag
             \notin {"GlobalVariable", "LocalVariable"}

\* C23: write_expression_pointer walks Access and AccessIndex down to a
\* GlobalVariable or LocalVariable root; with no index on the way it
\* returns the id and the storage class of the root and appends nothing to
\* the block; otherwise it appends exactly one OpAccessChain on the root
\* id, whose indices run from the root outwards, and returns its fresh id
\* with the storage class of the root; any other root aborts.
C23_PointerChains ==
    /\ AfterLowering =>
          LET uses == PointerUses(LoweredIr, LoweredIr.body)
              chains == SelectSeq(BodiesFrom(Lowered, 2),
                                  LAMBDA i : i.op = "OpAccessChain")
              consumers == SelectSeq(BodiesFrom(Lowered, 2),
                                     LAMBDA i : i.op \in {"OpStore", "OpLoad"})
          IN  /\ Len(consumers) = Len(uses)
              /\ Len(chains)
                    = Len(SelectSeq(uses,
                             LAMBDA h : IndexPath(LoweredIr, h) # <<>>))
              /\ \A k \in DOMAIN uses :
                    PointerLowered(Lowered, LoweredIr, uses, chains,
                                   consumers, k)
    /\ BadRootIn(ir) =>
          /\ pc \notin {"finish", "done"}
          /\ result.st = "panic" =>
                result.err.kind = "Unexpected pointer expression"

\* a store through two constant indices, a store through a constant and a
\* dynamic index and a store to the variable itself have been lowered
C23_Witness ==
    /\ AfterLowering
    /\ LoweredIr = Chains
    /\ \E i \in DOMAIN BodiesFrom(Lowered, 2) :
          /\ BodiesFrom(Lowered, 2)[i].op = "OpAccessChain"
          /\ Len(BodiesFrom(Lowered, 2)[i].ids) = 3
          /\ BodiesFrom(Lowered, 2)[i + 1].op = "OpStore"
    /\ \E i \in DOMAIN BodiesFrom(Lowered, 2) :
          /\ BodiesFrom(Lowered, 2)[i].op = "OpStore"
          /\ BodiesFrom(Lowered, 2)[i].ids[1] = writer.global_variables[2].id

(***************************************************************************)
(* Components taken as values (Spec)                                       *)
(***************************************************************************)

\* the Access and AccessIndex expressions the Emit statements of the body
\* cover
EmittedAccesses(ir_function) ==
    {h \in DOMAIN ir_function.expressions :
        /\ ir_function.expressions[h].tag \in {"Access", "AccessIndex"}
        /\ \E i \in DOMAIN ir_function.body :
              /\ ir_function.body[i].tag = "Emit"
              /\ ir_function.body[i].e1 <= h
              /\ h <= ir_function.body[i].e2}

\* the events of the cache since its last reset
LastReset ==
    CHOOSE j \in DOMAIN writer.cache_log :
       /\ writer.cache_log[j].op = "reset"
       /\ \A k \in DOMAIN writer.cache_log :
             writer.cache_log[k].op = "reset" => k <= j

\* the writes of the slot of h since the last reset
WritesOf(h) ==
    {j \in DOMAIN writer.cache_log :
        /\ j > LastReset
        /\ writer.cache_log[j].op = "write"
        /\ writer.cache_log[j].h = h}

\* what the slot of h held when event j happened
SlotAt(h, j) ==
    IF \E i \in WritesOf(h) : i < j /\ writer.cache_log[i].new # 0
    THEN writer.cache_log[CHOOSE i \in WritesOf(h) :
                             i < j /\ writer.cache_log[i].new # 0].new
    ELSE 0

\* the instructions of the function that define the id
DefinedBy(function, id) ==
    SelectSeq(BodiesFrom(function, 1), LAMBDA i : i.result = id)

\* the extract instruction the sentence expects for the access
ExtractOf(access, id, type_id, base_id) ==
    IF access.tag = "AccessIndex"
    THEN Ins("OpCompositeExtract", id, type_id, <<base_id>>, <<access.b>>,
             <<>>)
    ELSE Ins("OpVectorExtractDynamic", id, type_id,
             <<base_id, writer.cached[access.b]>>, <<>>, <<>>)

\* the access h was lowered at event j as the sentence says
AccessLowered(function, ir_function, h, j) ==
    LET access == ir_function.expressions[h]
        event == writer.cache_log[j]
        variable == \/ ir_function.expressions[access.a].tag
                          \in {"GlobalVariable", "LocalVariable"}
                    \/ SlotAt(access.a, j) = 0
    IN  /\ ~event.aborted
        /\ variable =>
              /\ event.new = 0
              /\ writer.cached[h] = 0
        /\ ~variable =>
              /\ event.new # 0
              /\ writer.cached[h] = event.new
              /\ IssuedOnce(event.new)
              /\ DefinedBy(function, event.new)
                    = <<ExtractOf(access, event.new,
                                  get_type_id(writer, access.ty).id,
                                  SlotAt(access.a, j))>>

\* the base of the access is a variable, a component of a variable, or a
\* vector constant
PlainBase(ir_function, h) ==
    LET base == ir_function.expressions[ir_function.expressions[h].a]
    IN  \/ base.tag \in {"GlobalVariable", "LocalVariable", "Access",
                         "AccessIndex"}
        \/ base.tag = "Constant" /\ typifier_get(base).tag = "Vector"

\* C24: lowering as a value an Access or AccessIndex whose base is a
\* GlobalVariable or LocalVariable expression, or whose base slot in the
\* expression cache is still zero, appends no instruction to the block and
\* leaves the slot of the expression at zero; only otherwise is an extract
\* instruction emitted and a fresh id other than zero stored in the slot.
C24_AccessAsValue ==
    /\ AfterLowering =>
          /\ \A h \in EmittedAccesses(LoweredIr) :
                /\ Cardinality(WritesOf(h)) = 1
                /\ \A j \in WritesOf(h) :
                      AccessLowered(Lowered, LoweredIr, h, j)
          /\ Len(SelectSeq(BodiesFrom(Lowered, 1),
                    LAMBDA i : i.op \in {"OpCompositeExtract",
                                         "OpVectorExtractDynamic"}))
                = Cardinality({h \in EmittedAccesses(LoweredIr) :
                                  writer.cached[h] # 0})
    /\ (\A f \in Range(ir.functions) :
           \A h \in EmittedAccesses(f) : PlainBase(f, h))
          => result.err.caps \notin {<<"access for type">>,
                                     <<"access index for type">>}

\* components of a variable and of a component whose slot is zero have
\* been lowered to nothing, components of a cached vector to extracts
C24_Witness ==
    /\ AfterLowering
    /\ LoweredIr = Chains
    /\ writer.cached[1] # 0
    /\ writer.cached[2] = 0
    /\ writer.cached[3] = 0
    /\ DefinedBy(Lowered, writer.cached[10]) # <<>>
    /\ DefinedBy(Lowered, writer.cached[11]) # <<>>

(***************************************************************************)
(* The interface of an entry point (Spec)                                  *)
(***************************************************************************)

\* the globals the sentence puts in the interface of the entry point
InterfaceGlobals(entry_point) ==
    {g \in DOMAIN ir.global_variables :
        /\ g \in entry_point.function.info
        /\ ir.global_variables[g].class \in {"Input", "Output"}}

\* the handle of the global that has the id
GlobalOf(id) ==
    CHOOSE g \in DOMAIN writer.global_variables :
       writer.global_variables[g].id = id

\* the OpEntryPoint instructions of the output
EntryPointWords ==
    SelectSeq(OutputInstructions, LAMBDA i : i.op = "OpEntryPoint")

\* the interface operands of the instruction are the ids of the globals
\* of the set, each once, in the order of the arena
InterfaceIs(instruction, globals) ==
    LET interface == Tail(instruction.ids)
    IN  /\ Len(interface) = Cardinality(globals)
        /\ Range(interface) = {writer.global_variables[g].id : g \in globals}
        /\ \A i, j \in DOMAIN interface :
              i < j => GlobalOf(interface[i]) < GlobalOf(interface[j])

\* C25: the interface list of each OpEntryPoint is exactly the ids of the
\* globals of class Input or Output that the analysis reports as used by
\* the function of the entry point, each once and in the order of the
\* global arena; globals of another class and unused globals are not in it.
C25_EntryPointInterface ==
    /\ \A e \in DOMAIN writer.entry_points :
          /\ writer.entry_points[e].op = "OpEntryPoint"
          /\ writer.entry_points[e].syms[2] = ir.entry_points[e].name
          /\ InterfaceIs(writer.entry_points[e],
                         InterfaceGlobals(ir.entry_points[e]))
    /\ pc = "done" =>
          /\ EntryPointWords = writer.entry_points
          /\ Len(EntryPointWords) = Len(ir.entry_points)

\* a module is written whose first entry point uses an Output and a
\* Uniform global and whose second uses an Input and an Output global
C25_Witness ==
    /\ pc = "done"
    /\ Len(EntryPointWords) = 2
    /\ ir.entry_points[1].function.info = {2, 4}
    /\ Len(EntryPointWords[1].ids) = 2
    /\ Len(EntryPointWords[2].ids) = 3

(***************************************************************************)
(* The capabilities the module requires (Spec)                             *)
(***************************************************************************)

\* lists of capabilities a check may be asked about
CapabilityLists ==
    LET names == {"Shader", "Sampled1D", "Image1D", "Kernel"}
    IN  {<<>>} \cup {<<a>> : a \in names}
               \cup {<<a, b>> : a \in names, b \in names}

\* the list is empty or one of its capabilities is declared
Declared(capabilities) ==
    \/ capabilities = <<>>
    \/ \E i \in DOMAIN capabilities : capabilities[i] \in writer.capabilities

\* the lists write asks check about for the global, in order
RECURSIVE GlobalRequirements(_)
GlobalRequirements(g) ==
    IF g > Len(ir.global_variables) THEN <<>>
    ELSE <<StorageClassCapabilities(
              parse_to_spirv_storage_class(writer,
                                           ir.global_variables[g].class))>>
         \o (IF Types[ir.global_variables[g].ty].tag = "Image"
             THEN <<DimCapabilities(
                       map_dim(Types[ir.global_variables[g].ty].dim))>>
             ELSE <<>>)
         \o GlobalRequirements(g + 1)

\* the lists write asks check about for the entry point, in order
RECURSIVE EntryPointRequirements(_)
EntryPointRequirements(e) ==
    IF e > Len(ir.entry_points) THEN <<>>
    ELSE (IF ir.entry_points[e].stage = "Fragment" THEN <<<<"Shader">>>>
          ELSE <<>>)
         \o <<<<"Shader">>>>
         \o EntryPointRequirements(e + 1)

\* all the lists of a write of the module, in the order of the checks:
\* globals, entry points, the addressing model and the memory model
Requirements ==
    GlobalRequirements(1) \o EntryPointRequirements(1)
       \o <<<<>>, MemoryModelCapabilities>>

\* the first list of the write that check refuses, or <<>>
FirstMissing ==
    LET missing == {i \in DOMAIN Requirements : ~Declared(Requirements[i])}
    IN  IF missing = {} THEN <<>>
        ELSE Requirements[CHOOSE i \in missing : \A j \in missing : i <= j]

C26_Checks ==
    /\ \A capabilities \in CapabilityLists :
          check(writer, capabilities)
             = IF Declared(capabilities) THEN Ok(writer, 0)
               ELSE Err(writer, "MissingCapabilities", capabilities)
    /\ pc = "done" => FirstMissing = <<>>
    /\ result.err.kind = "MissingCapabilities" =>
          /\ pc = "failed"
          /\ result.st = "err"
          /\ result.err.caps # <<>>
          /\ result.err.caps = FirstMissing
          /\ words = <<>>

\* C26: check(caps) succeeds if and only if caps is empty or one of its
\* elements is in the declared capability set of the Writer, and returns
\* MissingCapabilities with the whole list otherwise; a check that fails
\* anywhere in write (the storage class of a global, the dimension of an
\* image, an execution mode or model, the addressing or memory model)
\* makes write return that error; write never changes the declared set.
C26_CapabilityChecks ==
    []C26_Checks /\ [][writer'.capabilities = writer.capabilities]_vars

\* a write has failed on a list of two capabilities none of which is
\* declared, although the Writer declares another one
C26_Witness ==
    /\ pc = "failed"
    /\ result.err = [kind |-> "MissingCapabilities",
                     caps |-> <<"Sampled1D", "Image1D">>]
    /\ writer.capabilities = {"Shader"}

(***************************************************************************)
(* Scalar constants (Spec)                                                 *)
(***************************************************************************)

\* the declarations that define the id
DeclarationsWith(id) ==
    SelectSeq(writer.declarations, LAMBDA d : d.result = id)

\* the scalar type the constant is declared with
ScalarTypeId(constant) ==
    writer.lookup_type[LocalValue(0, constant.kind, constant.width, "None")]

\* the instruction the sentence gives the scalar constant
ScalarDeclared(constant, id) ==
    CASE constant.kind = "Bool" ->
           DeclarationsWith(id)
              = <<Ins(IF constant.value # 0 THEN "OpConstantTrue"
                      ELSE "OpConstantFalse",
                      id, ScalarTypeId(constant), <<>>, <<>>, <<>>)>>
      [] constant.kind \in {"Sint", "Uint"} /\ constant.width = 4 ->
           /\ Len(DeclarationsWith(id)) = 1
           /\ DeclarationsWith(id)[1].op = "OpConstant"
           /\ DeclarationsWith(id)[1].type = ScalarTypeId(constant)
           /\ DeclarationsWith(id)[1].lits = <<constant.value>>
      [] constant.kind \in {"Sint", "Uint"} /\ constant.width = 8 ->
           /\ Len(DeclarationsWith(id)) = 1
           /\ DeclarationsWith(id)[1].op = "OpConstant"
           /\ DeclarationsWith(id)[1].type = ScalarTypeId(constant)
           /\ Len(DeclarationsWith(id)[1].lits) = 2
           /\ DeclarationsWith(id)[1].lits[1] = constant.high
           /\ DeclarationsWith(id)[1].lits[2] = constant.value
      [] OTHER -> constant.kind = "Float"

\* the integer constants of the module that are neither 4 nor 8 bytes wide
OddIntegers ==
    {c \in DOMAIN ir.constants :
        /\ ir.constants[c].tag = "Scalar"
        /\ ir.constants[c].kind \in {"Sint", "Uint"}
        /\ ir.constants[c].width \notin {4, 8}}

\* C27: a scalar Sint or Uint constant of width 4 is emitted as OpConstant
\* with one value word, the value modulo 2^32; one of width 8 with two
\* value words, the high 32 bits first and the low 32 bits second; a Bool
\* constant as OpConstantTrue or OpConstantFalse with no value word; any
\* other integer width aborts.
C27_ScalarConstants ==
    /\ \A c \in DOMAIN writer.lookup_constant \ OddIntegers :
          ir.constants[c].tag = "Scalar" =>
             ScalarDeclared(ir.constants[c], writer.lookup_constant[c])
    /\ \A c \in OddIntegers :
          /\ pc \in {"start", "tested", "constants", "aborted", "failed"}
          /\ pc = "aborted" => result.err.kind = "unreachable"
          /\ c \in DOMAIN writer.lookup_constant =>
                /\ pc = "aborted"
                /\ DeclarationsWith(writer.lookup_constant[c]) = <<>>

\* the constants of 64 bits with a high word other than zero, the one of
\* 32 bits with bits above the 32nd and the booleans have been declared
C27_Witness ==
    /\ ir.constants = WideConstants
    /\ pc = "done"
    /\ DeclarationsWith(writer.lookup_constant[2])[1].lits = <<7>>
    /\ DeclarationsWith(writer.lookup_constant[3])[1].lits = <<3, 5>>
    /\ DeclarationsWith(writer.lookup_constant[6])[1].op = "OpConstantFalse"

(***************************************************************************)
(* The labels of a function (SpecBlock)                                    *)
(***************************************************************************)

\* the labels the instruction names as targets: of a branch, of a
\* conditional branch, of a switch, of a selection merge, of a loop merge
TargetsOf(instruction) ==
    CASE instruction.op \in {"OpBranch", "OpSelectionMerge", "OpLoopMerge"} ->
           Range(instruction.ids)
      [] instruction.op \in {"OpBranchConditional", "OpSwitch"} ->
           Range(Tail(instruction.ids))
      [] OTHER -> {}

\* all the labels the function names as targets
Targets(function) ==
    UNION {TargetsOf(function.blocks[i].termination)
              \cup UNION {TargetsOf(function.blocks[i].body[k]) :
                            k \in DOMAIN function.blocks[i].body} :
           i \in DOMAIN function.blocks}

Labels(function) ==
    {function.blocks[i].label_id : i \in DOMAIN function.blocks}

\* the labels of the blocks differ and every target is one of them
LabelsSound(function) ==
    /\ Cardinality(Labels(function)) = Len(function.blocks)
    /\ \A label \in Labels(function) : IssuedOnce(label)
    /\ \A target \in Targets(function) :
          Cardinality(BlocksOf(function, target)) = 1

\* C28: in every function lowered without error the label ids of the
\* blocks are pairwise distinct, and every label that is a branch target,
\* a switch target, a merge target or a continue target of the function is
\* the label of exactly one block of the same function, for every nesting
\* of Block, If, Switch and Loop.
C28_LabelsSound ==
    /\ \A f \in DOMAIN func : LabelsSound(func[f])
    /\ \A f, g \in DOMAIN func :
          f # g => Labels(func[f]) \cap Labels(func[g]) = {}
    /\ (ir.entry_points # <<>> /\ pc \in {"finish", "done"}) =>
          /\ Len(func) = Len(ir.functions) + 1
          /\ Len(GeneratedFunction.blocks) >= 2
          /\ GeneratedFunction.blocks[1].termination
                = Branch(GeneratedFunction.blocks[2].label_id)

\* a loop in a loop has been lowered: eight labels are targets
C28_Witness ==
    /\ ir.entry_points # <<>>
    /\ pc = "finish"
    /\ LoopsOf(GeneratedBody) # <<>>
    /\ LoopsOf(LoopsOf(GeneratedBody)[1].body) # <<>>
    /\ Cardinality(Targets(GeneratedFunction)) >= 8

(***************************************************************************)
(* Calls and the order of the functions (Spec)                             *)
(***************************************************************************)

RECURSIVE CallStatements(_)
\* the Call statements of the tree, in the order the lowering meets them
CallStatements(statements) ==
    IF statements = <<>> THEN <<>>
    ELSE LET s == Head(statements)
         IN  (IF s.tag = "Call" THEN <<s>> ELSE <<>>)
             \o CallStatements(s.body) \o CallStatements(CaseBodies(s.cases))
             \o CallStatements(s.other) \o CallStatements(Tail(statements))

\* the OpFunctionCall instructions of the function, in the order of its
\* blocks
CallWords(function) ==
    SelectSeq(BodiesFrom(function, 1), LAMBDA i : i.op = "OpFunctionCall")

\* the IR function the f-th lowered function comes from
IrOf(f) ==
    IF f <= Len(ir.functions) THEN ir.functions[f]
    ELSE ir.entry_points[f - Len(ir.functions)].function

\* function f of the arena calls itself or a function placed after it
CallsAhead(f) ==
    \E k \in DOMAIN CallStatements(ir.functions[f].body) :
       CallStatements(ir.functions[f].body)[k].fn >= f

\* C29: every OpFunctionCall emitted for a Call statement takes as its
\* function operand the id stored in lookup_function for the callee, an
\* entry that exists only once the emission of the callee has finished; a
\* module in which a function calls itself or a function placed later in
\* the arena never yields an output: the lowering aborts at that Call.
C29_CalleeLoweredFirst ==
    /\ DOMAIN writer.lookup_function
          = {f \in DOMAIN func : f <= Len(ir.functions)}
    /\ \A f \in DOMAIN writer.lookup_function :
          /\ writer.lookup_function[f] = func[f].signature.result
          /\ func[f].signature.op = "OpFunction"
    /\ \A f \in DOMAIN func :
          /\ Len(CallWords(func[f])) = Len(CallStatements(IrOf(f).body))
          /\ \A k \in DOMAIN CallWords(func[f]) :
                LET callee == CallStatements(IrOf(f).body)[k].fn
                IN  /\ callee < f
                    /\ callee \in DOMAIN ir.functions
                    /\ CallWords(func[f])[k].ids[1]
                          = func[callee].signature.result
    /\ \A f \in DOMAIN ir.functions :
          CallsAhead(f) =>
             /\ Len(func) < f
             /\ pc \notin {"entry_points", "finish", "done"}
             /\ words = <<>>
             /\ (pc = "aborted" /\ \A g \in 1..(f - 1) : ~CallsAhead(g)) =>
                   /\ result.err.kind = "lookup_function"
                   /\ Len(func) = f - 1

\* a function that calls the one before it has been lowered, and the
\* module is written
C29_Witness ==
    /\ pc = "done"
    /\ Len(func) >= 2
    /\ CallWords(func[2]) # <<>>
    /\ CallWords(func[2])[1].ids[1] = writer.lookup_function[1]

(***************************************************************************)
(* The order of the type declarations (SpecTypes).                         *)
(***************************************************************************)
ConstantOps ==
    {"OpConstant", "OpConstantTrue", "OpConstantFalse",
     "OpConstantComposite"}

IsTypeDeclaration(n) ==
    writer.declarations[n].op \in TypeOps \cup {"OpTypeStruct"}

\* the declarations of types that refer to another declaration
Referring == {n \in DOMAIN writer.declarations :
                 IsTypeDeclaration(n) /\ writer.declarations[n].ids # <<>>}

\* every id the n-th declaration refers to is the result of a declaration
\* of a type or of a constant at a smaller index of the buffer
RefersBackwards(n) ==
    \A k \in DOMAIN writer.declarations[n].ids :
       \E m \in 1..(n - 1) :
          /\ writer.declarations[m].result = writer.declarations[n].ids[k]
          /\ writer.declarations[m].op \in
                TypeOps \cup {"OpTypeStruct"} \cup ConstantOps

\* the calls that asked for a type and appended declarations
Declaring ==
    {i \in DOMAIN trace :
        /\ trace[i].op \in {"get_type_id", "get_pointer_id"}
        /\ trace[i].st = "ok"
        /\ trace[i].decl_after > trace[i].decl_before}

\* the indices of the declarations the i-th call appended before the last
Caused(i) == (trace[i].decl_before + 1)..(trace[i].decl_after - 1)

\* the last declaration the i-th call appended is the one of the type it
\* asked for
OwnDeclarationLast(i) ==
    /\ writer.declarations[trace[i].decl_after].result = trace[i].id
    /\ IsTypeDeclaration(trace[i].decl_after)

\* the type the i-th call asked for has the first id the call allocated,
\* smaller than the id of every other declaration of the call
IdAllocatedFirst(i) ==
    /\ trace[i].id = trace[i].id_before + 1
    /\ \A n \in Caused(i) : trace[i].id < writer.declarations[n].result

\* the type the i-th call asked for has the last id the call allocated,
\* greater than the id of every other declaration of the call
IdAllocatedLast(i) ==
    /\ trace[i].id = trace[i].id_after
    /\ \A n \in Caused(i) : writer.declarations[n].result < trace[i].id

\* the calls of get_pointer_id on a handle that is not of a pointer type:
\* the pointer is declared by get_pointer_id itself
WrappingCalls ==
    {i \in Declaring : /\ trace[i].op = "get_pointer_id"
                       /\ Types[trace[i].key.h].tag # "Pointer"}

\* C30 as stated: every type declaration comes after the declarations of
\* the types and constants it refers to, and a type that was asked for has
\* an id allocated before, and smaller than, those of the types declared
\* because of it
C30_ReferrerIdSmaller ==
    /\ \A n \in Referring : RefersBackwards(n)
    /\ \A i \in Declaring : OwnDeclarationLast(i) /\ IdAllocatedFirst(i)

\* C30: every type declaration comes after the declarations of the types
\* and constants it refers to.  A type declared by get_type_id has an id
\* allocated before, and smaller than, those of the types declared because
\* of it; a pointer declared by get_pointer_id itself has an id allocated
\* after its pointee was declared, greater than those of the types declared
\* because of it.
C30_DeclaredAfterReferents ==
    /\ \A n \in Referring : RefersBackwards(n)
    /\ \A i \in Declaring \ WrappingCalls :
          OwnDeclarationLast(i) /\ IdAllocatedFirst(i)
    /\ \A i \in WrappingCalls :
          /\ OwnDeclarationLast(i)
          /\ IdAllocatedLast(i)
          /\ writer.declarations[trace[i].decl_after].op = "OpTypePointer"
          /\ Caused(i) # {} =>
                /\ writer.declarations[trace[i].decl_after].ids[1]
                      = trace[i].id_before + 1
                /\ writer.declarations[trace[i].decl_after].ids[1]
                      < trace[i].id

\* a struct, a sized array and a pointer made by get_pointer_id, each
\* declared together with what it refers to
C30_Witness ==
    /\ \E i \in Declaring \ WrappingCalls :
          /\ trace[i].key = LookupHandle(14)
          /\ Caused(i) # {}
          /\ writer.declarations[trace[i].decl_after].op = "OpTypeArray"
    /\ \E i \in WrappingCalls : Caused(i) # {}
    /\ \E n \in Referring : Len(writer.declarations[n].ids) = 2

\* a pointer made by get_pointer_id whose pointee was declared by the same
\* call
C30_PointerAfterPointee ==
    \E i \in WrappingCalls :
       /\ Caused(i) # {}
       /\ trace[i].id > writer.declarations[trace[i].decl_after].ids[1]

====
